---- MODULE Spec2Model ----
(***************************************************************************)
(* Model of the eidc32proxy session engine: the paired inbound / outbound  *)
(* relay halves of both directions, the mangler registry, the sequence     *)
(* mangler, message injection and the relay lock.                          *)
(***************************************************************************)
EXTENDS Integers, Sequences, FiniteSets, TLC

\* ------------------------------------------------------------------ bounds
\* Specification Spec: the mangler registry under light traffic.
MaxNorth == 2       \* messages the controller puts on the northbound stream
MaxSouth == 0       \* messages the manager puts on the southbound stream
MaxInject == 1      \* calls of Session.Inject
MaxAdd == 2         \* calls of Session.AddMangler made by the embedder
MaxDel == 1         \* calls of Session.DelMangler made by the embedder
\* Specification SpecRelay: the relays under varied traffic and injection.
RelayMaxNorth == 3
RelayMaxSouth == 2
RelayMaxInject == 1
\* Specification SpecLive: the relays with streams that end, under fairness.
LiveMaxNorth == 2
LiveMaxSouth == 1
LiveMaxInject == 1
\* Specification SpecKeys: ConnectedResponses with varying server keys.
KeysMaxNorth == 1
KeysMaxSouth == 4
\* Specification SpecPager: the message pager by itself.
MaxLines == 6       \* lines of a header given to an impersonation routine
MaxWriteLines == 3  \* lines of a header the outbound half renders
StealthMaxNorth == 2
StealthMaxInject == 1
\* SpecSuppress
SuppressMaxNorth == 5
SuppressMaxSouth == 1
SuppressMaxAdd == 1
\* SpecErr
ErrMaxNorth == 2
ErrMaxSouth == 1
ErrMaxAdd == 2
BypassMaxNorth == 1
BypassMaxSouth == 1
BypassMaxInject == 2
BypassMaxAdd == 1
MaxHost == 4         \* characters of a host
MaxConns == 2       \* connections the listener accepts
MaxAcceptErrs == 1  \* Accept errors while the listener is open
MaxSessSubs == 2    \* channels SubscribeSessions hands out
MaxMsgs == 2        \* messages on the stream of the scanner
MaxSubs == 2        \* calls of Subscribe
MaxDist == 2        \* calls of DistributeMessage

\* --------------------------------------------------------------- constants
Northbound == "Northbound"
Southbound == "Southbound"
Dirs == {Northbound, Southbound}

MsgTypeUnknown == "Unknown"
MsgTypeConnectedRequest == "ConnectedRequest"
MsgTypeConnectedResponse == "ConnectedResponse"
MsgTypeEventRequest == "EventRequest"
MsgTypeHeartbeatRequest == "HeartbeatRequest"
MsgTypeHeartbeatResponse == "HeartbeatResponse"
MsgTypePointStatusRequest == "PointStatusRequest"
MsgTypeDoor0x2fLockStatusRequest == "Door0x2fLockStatusRequest"
MsgTypeDoor0x2fLockStatusResponse == "Door0x2fLockStatusResponse"
MsgTypeEventAckRequest == "EventAckRequest"
MsgTypeEventAckResponse == "EventAckResponse"

\* Event types; AnyEvent is the zero EventType of a DropEidcEvent that takes
\* every event.
BufferedEventFlag == 32768
EventAccessGranted == 64
EventAccessRestricted == 70
AnyEvent == 0

\* MangleResult is a bit set; a result is modelled as the set of its bits,
\* so that & is \cap and | is \cup.
ManglerDone == {"Done"}
ManglerDrop == {"Drop"}
ManglerErr == {"Err"}
ManglerSuccess == {"Success"}
ManglerNoop == {"Noop"}
ZeroResult == {}

\* values.Get("seq") of a request: an integer, the empty string (no seq
\* parameter) or a string strconv.Atoi rejects.
NoSeq == -1
BadSeq == -2

NoId == <<>>

VARIABLES
    env,          \* the traffic and the calls the run explores (never changes)
    relayMutex,   \* "free", or who holds Session.relayMutex
    mangleLock,   \* "free", or who holds Session.mangleLock
    manglers,     \* Session.manglers: id -> mangler
    nreg,         \* number of manglers registered so far (names them)
    nadd,         \* number of AddMangler calls made by the embedder
    ndel,         \* number of DelMangler calls made by the embedder
    deleted,      \* the manglers DelMangler removed
    lastSeq,      \* seqMangler.lastSeq
    begun,        \* BeginRelaying has been called
    over,         \* counter of the Session.over wait group
    nframed,      \* per direction: messages framed so far
    answered,     \* requests on the controller's socket it has answered
    pcIn,         \* per direction: position of relayInboundHalf
    cur,          \* per direction: message held by relayInboundHalf
    visited,      \* per direction: registry ids the range loop has produced
    pcOut,        \* per direction: position of relayOutboundHalf
    out,          \* per direction: message held by relayOutboundHalf
    inj,          \* per Inject call: its position, message and manglers
    sock,         \* per direction: what was written to the outbound socket
    pager,        \* per direction: messages given to Pager.DistributeMessage
    recvd,        \* per direction: ids in the order relayOutboundHalf got them
    calls,        \* per direction: the Mangle invocations of the inbound half
    errs,         \* per direction: errors sent to errChan by the two halves
    stream,       \* per direction: the inbound socket as its scanner sees it
    serverKeys,   \* Session.serverKeys
    issued,       \* the ids AddMangler has returned, in the order of the calls
    rejected,     \* per direction: the framed slices ReadMsg returned an error for
    \* the message pager by itself
    mu,           \* eidcMessagePager.mu: "free" or its holder
    typesToChans, \* eidcMessagePager.typesToChans
    catsToChans,  \* eidcMessagePager.catsToChans
    chans,        \* per subscriber channel: its state and its subscriber
    dist,         \* the DistributeMessage call in progress
    offers,       \* the sends DistributeMessage attempted
    \* the scanner of one stream by itself
    wire,         \* bytes of the stream the reader has not returned yet
    buf,          \* bufio.Scanner's buffer: bytes read and not yet consumed
    atEOF,        \* the reader has returned io.EOF
    tokens,       \* the slices Scan has produced
    scanning,     \* Scan has not returned false yet
    fill,         \* the split function asked for more data: Scan reads next
    scanErr,      \* what s.Err() returns once Scan has returned false
    sent,         \* the messages the peer wrote, each with its trailing whitespace
    lost,         \* the bytes the peer wrote that the stream ended before
    \* a function by itself
    pure,         \* the function applied, its argument and its result
    \* the Server
    server        \* the listener, the stop and error channels, the accept loop,
                  \* the session subscribers and the goroutines announcing sessions

sessionVars ==
    <<env, relayMutex, mangleLock, manglers, nreg, nadd, ndel, deleted,
      lastSeq, begun, over, nframed, answered, pcIn, cur, visited, pcOut,
      out, inj, sock, pager, recvd, calls, errs, stream, serverKeys, issued,
      rejected>>

pagerVars == <<mu, typesToChans, catsToChans, chans, dist, offers>>

framerVars == <<wire, buf, atEOF, tokens, scanning, fill, scanErr, sent, lost>>

auxVars == <<pure, server>>

vars == <<sessionVars, pagerVars, framerVars, auxVars>>

\* ---------------------------------------------------------------- messages
NoMsg == [id |-> NoId]

\* The server key of a message that is not a ConnectedResponse, and the one
\* found in the controller's login request.
NoKey == "none"
LoginKey == "K0"

Message(id, dir, req, typ, seq, qok, re, ok) ==
    [id |-> id, direction |-> dir, Request |-> req, Type |-> typ,
     seq |-> seq, origSeq |-> seq, queryOk |-> qok, marshalOk |-> TRUE,
     hasOrig |-> TRUE, re |-> re, parses |-> ok,
     ServerKey |-> NoKey, bodyOk |-> TRUE,
     EventType |-> AnyEvent, Points |-> {},
     EventID |-> IF typ = MsgTypeEventRequest THEN id[2] ELSE 0,
     Injected |-> FALSE, Dropped |-> FALSE]

\* The type of the response a request provokes from the controller.
ResponseType(typ) ==
    IF typ = MsgTypeHeartbeatRequest THEN MsgTypeHeartbeatResponse
    ELSE IF typ = MsgTypeDoor0x2fLockStatusRequest THEN MsgTypeDoor0x2fLockStatusResponse
    ELSE IF typ = MsgTypeEventAckRequest THEN MsgTypeEventAckResponse
    ELSE MsgTypeUnknown

\* Requests written to the controller's socket, in order.
ControllerRequests ==
    SelectSeq(sock[Southbound], LAMBDA e : e.Request /\ e.wrote # "empty")

\* What the controller can put next on the northbound stream: its login
\* request first, then events, slices that do not parse, and the response to
\* the oldest request it has not answered.
NorthboundNext ==
    LET id == <<Northbound, nframed[Northbound] + 1>> IN
    IF nframed[Northbound] = 0
    THEN {Message(id, Northbound, TRUE, MsgTypeConnectedRequest, NoSeq, TRUE, NoId, TRUE)}
    ELSE (IF "event" \in env.north
          THEN {Message(id, Northbound, TRUE, MsgTypeEventRequest, NoSeq, TRUE, NoId, TRUE)}
          ELSE {})
         \cup (IF "garbage" \in env.north
               THEN {Message(id, Northbound, TRUE, MsgTypeUnknown, NoSeq, TRUE, NoId, FALSE)}
               ELSE {})
         \cup (IF "access" \in env.north
               THEN {[Message(id, Northbound, TRUE, MsgTypeEventRequest, NoSeq, TRUE,
                              NoId, TRUE) EXCEPT !.EventType = e] :
                        e \in {EventAccessGranted + BufferedEventFlag,
                               EventAccessRestricted}}
               ELSE {})
         \cup (IF "granted" \in env.north
               THEN {[Message(id, Northbound, TRUE, MsgTypeEventRequest, NoSeq, TRUE,
                              NoId, TRUE) EXCEPT !.EventType = EventAccessGranted]}
               ELSE {})
         \cup (IF "points" \in env.north
               THEN {[Message(id, Northbound, TRUE, MsgTypePointStatusRequest, NoSeq,
                              TRUE, NoId, TRUE) EXCEPT !.Points = ps] :
                        ps \in {{12, 38}, {16, 7}, {7}}}
               ELSE {})
         \cup (IF "response" \in env.north /\ answered < Len(ControllerRequests)
               THEN {Message(id, Northbound, FALSE,
                             ResponseType(ControllerRequests[answered + 1].Type),
                             NoSeq, TRUE, ControllerRequests[answered + 1].id, TRUE)}
               ELSE {})

\* What has been written to the manager's socket.
ManagerGot == {sock[Northbound][k] : k \in DOMAIN sock[Northbound]}

\* What the manager can put next on the southbound stream: requests with
\* and without a seq parameter, with a query string url.ParseQuery rejects,
\* responses, slices that do not parse, and the acknowledgement of an event
\* it was sent.
SouthboundNext ==
    LET id == <<Southbound, nframed[Southbound] + 1>> IN
    {Message(id, Southbound, TRUE, MsgTypeHeartbeatRequest, s, TRUE, NoId, TRUE) :
         s \in env.seqs}
    \cup (IF "badquery" \in env.south
          THEN {Message(id, Southbound, TRUE, MsgTypeHeartbeatRequest, 7, FALSE, NoId, TRUE)}
          ELSE {})
    \cup (IF "response" \in env.south
          THEN {[Message(id, Southbound, FALSE, MsgTypeConnectedResponse,
                         NoSeq, TRUE, NoId, TRUE)
                    EXCEPT !.ServerKey = k, !.bodyOk = b] :
                   k \in env.keys, b \in env.bodies}
          ELSE {})
    \cup (IF "garbage" \in env.south
          THEN {Message(id, Southbound, TRUE, MsgTypeUnknown, NoSeq, TRUE, NoId, FALSE)}
          ELSE {})
    \cup (IF "eventack" \in env.south
          THEN {[Message(id, Southbound, TRUE, MsgTypeEventAckRequest, 1, TRUE,
                         NoId, TRUE) EXCEPT !.EventID = e.EventID] :
                   e \in {x \in ManagerGot : x.Type = MsgTypeEventRequest}}
          ELSE {})

MaxFramed(dir) == IF dir = Northbound THEN env.maxNorth ELSE env.maxSouth

\* ---------------------------------------------------------------- manglers
\* A registered mangler: its kind, its parameters and a name (uid) that tells
\* registrations apart.
NoParams == [EventType |-> AnyEvent, OneShot |-> FALSE, point |-> 0]
UserMangler ==
    [kind |-> "user", msgType |-> MsgTypeUnknown, Remaining |-> 0, with |-> NoParams]
DropMessageByType(t, k) ==
    [kind |-> "DropMessageByType", msgType |-> t, Remaining |-> k, with |-> NoParams]
dropEidcResponse(t) ==
    [kind |-> "dropEidcResponse", msgType |-> t, Remaining |-> 0, with |-> NoParams]
DropEidcEvent(e, oneShot) ==
    [kind |-> "DropEidcEvent", msgType |-> MsgTypeEventRequest, Remaining |-> 0,
     with |-> [NoParams EXCEPT !.EventType = e, !.OneShot = oneShot]]
DropEidcPointStatusRequest(pt) ==
    [kind |-> "DropEidcPointStatusRequest", msgType |-> MsgTypePointStatusRequest,
     Remaining |-> 0, with |-> [NoParams EXCEPT !.point = pt]]

\* DropMessageByType.Mangle: the result is built with &, starting from zero.
DropMessageByTypeMangle(m, msg) ==
    IF msg.Type = m.msgType
    THEN LET r1 == ZeroResult \cap ManglerSuccess
             r2 == r1 \cap ManglerDrop
             r3 == IF m.Remaining - 1 < 1 THEN r2 \cap ManglerDone ELSE r2
         IN  [mr |-> r3, m |-> [m EXCEPT !.Remaining = m.Remaining - 1]]
    ELSE [mr |-> ManglerNoop, m |-> m]

\* dropEidcResponse.Mangle
dropEidcResponseMangle(m, msg) ==
    IF msg.direction # Northbound THEN [mr |-> ManglerNoop, m |-> m]
    ELSE IF msg.Request THEN [mr |-> ManglerNoop, m |-> m]
    ELSE IF msg.Type # m.msgType THEN [mr |-> ManglerNoop, m |-> m]
    ELSE [mr |-> ManglerDrop \cup ManglerDone, m |-> m]

\* DropEidcEvent.Mangle without filters: OnlyBuffered, OnlyLive, FilterFunc
\* and PostFunc are not set.
DropEidcEventMangle(m, msg) ==
    IF msg.direction # Northbound THEN [mr |-> ManglerNoop, m |-> m]
    ELSE IF msg.Type # MsgTypeEventRequest THEN [mr |-> ManglerNoop, m |-> m]
    ELSE IF ~msg.bodyOk THEN [mr |-> ManglerNoop \cup ManglerErr, m |-> m]
    ELSE IF m.with.EventType # AnyEvent
            /\ msg.EventType % BufferedEventFlag # m.with.EventType
    THEN [mr |-> ManglerNoop, m |-> m]
    ELSE [mr |-> IF m.with.OneShot THEN ManglerDrop \cup ManglerDone ELSE ManglerDrop,
          m |-> m]

\* DropEidcPointStatusRequest.Mangle that stays registered.
DropEidcPointStatusRequestStays(m, msg) ==
    IF msg.direction # Northbound THEN [mr |-> ManglerNoop, m |-> m]
    ELSE IF msg.Type # MsgTypePointStatusRequest THEN [mr |-> ManglerNoop, m |-> m]
    ELSE IF ~msg.bodyOk THEN [mr |-> ManglerNoop \cup ManglerErr, m |-> m]
    ELSE IF m.with.point \in msg.Points
    THEN [mr |-> ManglerDrop, m |-> m]
    ELSE [mr |-> ManglerNoop, m |-> m]

\* DropEidcPointStatusRequest.Mangle; the error of a body that does not
\* parse is the Err bit here.
DropEidcPointStatusRequestMangle(m, msg) ==
    IF msg.direction # Northbound THEN [mr |-> ManglerNoop, m |-> m]
    ELSE IF msg.Type # MsgTypePointStatusRequest THEN [mr |-> ManglerNoop, m |-> m]
    ELSE IF ~msg.bodyOk THEN [mr |-> ManglerNoop \cup ManglerErr, m |-> m]
    ELSE IF m.with.point \in msg.Points
    THEN [mr |-> ManglerDone \cup ManglerDrop, m |-> m]
    ELSE [mr |-> ManglerNoop, m |-> m]

\* Mangler.Mangle: the set of outcomes of one invocation.
Mangle(m, msg) ==
    CASE m.kind = "DropMessageByType" -> {DropMessageByTypeMangle(m, msg)}
      [] m.kind = "dropEidcResponse" -> {dropEidcResponseMangle(m, msg)}
      [] m.kind = "DropEidcEvent" -> {DropEidcEventMangle(m, msg)}
      [] m.kind = "DropEidcPointStatusRequest" -> {DropEidcPointStatusRequestMangle(m, msg)}
      [] OTHER -> {[mr |-> r, m |-> m] : r \in env.results}

\* seqMangler.Mangle on a southbound request: the new message, the new
\* lastSeq and the result.
seqMangle(msg, last) ==
    IF ~msg.queryOk THEN [msg |-> msg, lastSeq |-> last, mr |-> ManglerErr]
    ELSE IF msg.seq = NoSeq THEN [msg |-> msg, lastSeq |-> last, mr |-> ManglerNoop]
    ELSE IF msg.seq = BadSeq THEN [msg |-> msg, lastSeq |-> last, mr |-> ManglerErr]
    ELSE IF last + 1 = msg.seq
         THEN [msg |-> msg, lastSeq |-> last + 1, mr |-> ManglerNoop]
         ELSE [msg |-> [msg EXCEPT !.seq = last + 1], lastSeq |-> last + 1,
               mr |-> ManglerSuccess]

\* The highest id in the registry plus one.
NextManglerId(ms) ==
    IF DOMAIN ms = {} THEN 0
    ELSE (CHOOSE k \in DOMAIN ms : \A j \in DOMAIN ms : j <= k) + 1

\* Session.AddMangler on registry ms; n names the registration.
AddManglerTo(ms, m, n) ==
    LET id == NextManglerId(ms) IN
    [k \in DOMAIN ms \cup {id} |->
        IF k = id THEN [kind |-> m.kind, msgType |-> m.msgType,
                        Remaining |-> m.Remaining, with |-> m.with,
                        uid |-> n, prewire |-> ~begun]
        ELSE ms[k]]

\* Session.Inject's loop of AddMangler calls; it is preceded by an Inject
\* that registers nothing.
AddNone(ms, list, n) == ms
RECURSIVE AddAll(_, _, _)
AddAll(ms, list, n) ==
    IF list = <<>> THEN ms
    ELSE AddAll(AddManglerTo(ms, Head(list), n + 1), Tail(list), n + 1)

\* The ids the AddMangler calls of AddAll return.
RECURSIVE IdsOfAll(_, _, _)
IdsOfAll(ms, list, n) ==
    IF list = <<>> THEN <<>>
    ELSE <<NextManglerId(ms)>>
         \o IdsOfAll(AddManglerTo(ms, Head(list), n + 1), Tail(list), n + 1)

Remove(ms, id) == [k \in DOMAIN ms \ {id} |-> ms[k]]

\* ------------------------------------------------------------------- pager
\* The subscription categories.
SubMsgCatAny == "Any"
SubMsgCatAnyNB == "AnyNB"
SubMsgCatAnyNBReq == "AnyNBReq"
SubMsgCatAnyNBResp == "AnyNBResp"
SubMsgCatAnySB == "AnySB"
SubMsgCatAnySBReq == "AnySBReq"
SubMsgCatAnySBResp == "AnySBResp"
SubMsgCatAnyReq == "AnyReq"
SubMsgCatAnyResp == "AnyResp"

SubMsgCats ==
    {SubMsgCatAny, SubMsgCatAnyNB, SubMsgCatAnyNBReq, SubMsgCatAnyNBResp,
     SubMsgCatAnySB, SubMsgCatAnySBReq, SubMsgCatAnySBResp, SubMsgCatAnyReq,
     SubMsgCatAnyResp}

SubInfo(cat, types) == [Category |-> cat, MsgTypes |-> types]

\* The subscriptions tried: each category alone, and lists of message
\* types, one of them with a type twice, next to a category.
SubInfos ==
    {SubInfo(cat, <<>>) : cat \in SubMsgCats}
    \cup {SubInfo(SubMsgCatAnySB, <<MsgTypeHeartbeatResponse>>),
          SubInfo(SubMsgCatAny,
                  <<MsgTypeEventRequest, MsgTypeHeartbeatRequest,
                    MsgTypeEventRequest>>)}

\* The messages given to DistributeMessage.
PagerMessages ==
    {[direction |-> Northbound, Request |-> TRUE, Response |-> FALSE,
      Type |-> MsgTypeEventRequest],
     [direction |-> Northbound, Request |-> FALSE, Response |-> TRUE,
      Type |-> MsgTypeHeartbeatResponse],
     [direction |-> Southbound, Request |-> TRUE, Response |-> FALSE,
      Type |-> MsgTypeHeartbeatRequest],
     [direction |-> Southbound, Request |-> FALSE, Response |-> TRUE,
      Type |-> MsgTypeConnectedResponse]}

NoChan == [sub |-> "none", state |-> "none", info |-> SubInfo(SubMsgCatAny, <<>>),
           ready |-> FALSE, got |-> <<>>]

NoDist == [pc |-> "idle", n |-> 0, msg |-> NoMsg, seen |-> {}]

\* A session with no traffic, for the runs of the pager and of the scanner
\* by themselves.
IdleEnv ==
    [maxNorth |-> 0, maxSouth |-> 0, maxInject |-> 0, maxAdd |-> 0,
     maxDel |-> 0, north |-> {}, south |-> {}, seqs |-> {}, results |-> {},
     add |-> {}, inject |-> {}, keys |-> {}, bodies |-> {}]

\* ------------------------------------------------------------------ framer
\* Bytes.  A header line other than the blank one is a single byte here: "G"
\* and "P" are start lines, "c0", "c1", "c2" the line Content-Length: 0, 1,
\* 2 and "cX" a Content-Length line without a digit; "b" is a body byte.
CR == "CR"
LF == "LF"
SP == "SP"
crlf == <<CR, LF>>
crlfcrlf == <<CR, LF, CR, LF>>
httpCLHeader == {"c0", "c1", "c2", "cX"}

\* unicode.IsSpace
IsSpace(b) == b \in {CR, LF, SP}

\* bytes.Index: the offset of the first sep in data, -1 without one.
Index(data, sep) ==
    LET at == {i \in 0..(Len(data) - Len(sep)) :
                  SubSeq(data, i + 1, i + Len(sep)) = sep}
    IN IF at = {} THEN -1 ELSE CHOOSE i \in at : \A j \in at : i <= j

\* strconv.Atoi of the first run of digits of a Content-Length line.
Atoi(line) ==
    CASE line = "c0" -> [n |-> 0, err |-> FALSE]
      [] line = "c1" -> [n |-> 1, err |-> FALSE]
      [] line = "c2" -> [n |-> 2, err |-> FALSE]
      [] OTHER -> [n |-> 0, err |-> TRUE]

\* getContentLength: the value of the last line that begins with
\* Content-Length:, -1 without such a line.
getContentLength(in) ==
    LET lines == {i \in DOMAIN in :
                     in[i] \in httpCLHeader /\ (i = 1 \/ in[i - 1] = LF)}
    IN IF lines = {}
       THEN [n |-> -1, err |-> FALSE]
       ELSE Atoi(in[CHOOSE i \in lines : \A j \in lines : j <= i])

\* SplitHttpMsg: the whitespace bytes of data from offset from on.
buggyExtraGarbage(data, from) ==
    CHOOSE g \in 0..(Len(data) - from) :
       /\ \A j \in 1..g : IsSpace(data[from + j])
       /\ g < Len(data) - from => ~IsSpace(data[from + g + 1])

\* SplitHttpMsg.  The nil token is the empty one.
SplitHttpMsg(data, eof) ==
    LET more == [advance |-> 0, token |-> <<>>, err |-> FALSE]
        i == Index(data, crlfcrlf)
        headerSize == i + Len(crlfcrlf)
        cl == getContentLength(SubSeq(data, 1, headerSize))
        count == headerSize + cl.n + buggyExtraGarbage(data, headerSize + cl.n)
    IN IF i >= 0
       THEN IF cl.err
            THEN [advance |-> 0, token |-> <<>>, err |-> TRUE]
            ELSE IF headerSize + cl.n > Len(data)
                 THEN more
                 ELSE [advance |-> count, token |-> SubSeq(data, 1, count),
                       err |-> FALSE]
       ELSE more

\* The messages a peer writes: a request without Content-Length, messages
\* with Content-Length 0, 1 and 2 and a body of that length, and one with a
\* Content-Length line that has no digits.
HttpGet == <<"G">> \o crlf \o crlf
HttpPost(line, n) == <<"P">> \o crlf \o <<line>> \o crlf \o crlf \o [k \in 1..n |-> "b"]
WellFormed == {HttpGet, HttpPost("c0", 0), HttpPost("c1", 1), HttpPost("c2", 2)}
HttpMessages == WellFormed \cup {HttpPost("cX", 0)}

\* What a peer writes: up to MaxMsgs messages, each followed by nothing or
\* by the stray CR LF of eIDCListener.
Written1 == [msg : HttpMessages, ws : {<<>>, crlf}]
Streams == UNION {[1..n -> Written1] : n \in 1..MaxMsgs}
NoStream == <<>>

RECURSIVE Flat(_)
Flat(items) ==
    IF items = <<>> THEN <<>>
    ELSE Flat(SubSeq(items, 1, Len(items) - 1))
         \o items[Len(items)].msg \o items[Len(items)].ws

\* bufio.NewScanner over a stream that carries one of the streams of ss and
\* ends after any number of its bytes.
InitScanner(ss) ==
    /\ sent \in ss
    /\ \E n \in 0..Len(Flat(sent)) :
          /\ wire = SubSeq(Flat(sent), 1, n)
          /\ lost = SubSeq(Flat(sent), n + 1, Len(Flat(sent)))
    /\ buf = <<>>
    /\ atEOF = FALSE
    /\ tokens = <<>>
    /\ scanning = TRUE
    /\ fill = TRUE
    /\ scanErr = FALSE

\* Scan: Read returns the next n bytes of the stream.
ScanRead ==
    /\ scanning /\ fill /\ ~atEOF
    /\ \E n \in 1..Len(wire) :
          /\ buf' = buf \o SubSeq(wire, 1, n)
          /\ wire' = SubSeq(wire, n + 1, Len(wire))
    /\ fill' = FALSE
    /\ UNCHANGED <<atEOF, tokens, scanning, scanErr, sent, lost, sessionVars,
                   pagerVars, auxVars>>

\* Scan: Read returns io.EOF.
ScanEOF ==
    /\ scanning /\ fill /\ ~atEOF
    /\ wire = <<>>
    /\ atEOF' = TRUE
    /\ fill' = FALSE
    /\ UNCHANGED <<wire, buf, tokens, scanning, scanErr, sent, lost,
                   sessionVars, pagerVars, auxVars>>

\* Scan: the split function returns a token; Scan returns true and the
\* goroutine of scannerToSliceByteChan hands the slice over.
ScanToken ==
    /\ scanning /\ ~fill
    /\ LET r == SplitHttpMsg(buf, atEOF)
       IN /\ ~r.err /\ r.advance > 0
          /\ tokens' = Append(tokens, r.token)
          /\ buf' = SubSeq(buf, r.advance + 1, Len(buf))
          /\ fill' = (buf' = <<>> /\ ~atEOF)
    /\ UNCHANGED <<wire, atEOF, scanning, scanErr, sent, lost, sessionVars,
                   pagerVars, auxVars>>

\* Scan: the split function asks for more data and there may be more.
ScanMore ==
    /\ scanning /\ ~fill /\ ~atEOF
    /\ LET r == SplitHttpMsg(buf, atEOF) IN ~r.err /\ r.advance = 0
    /\ fill' = TRUE
    /\ UNCHANGED <<wire, buf, atEOF, tokens, scanning, scanErr, sent, lost,
                   sessionVars, pagerVars, auxVars>>

\* Scan: the split function asks for more data after io.EOF; Scan drops
\* what is left and returns false, and Err() is nil.
ScanStop ==
    /\ scanning /\ ~fill /\ atEOF
    /\ LET r == SplitHttpMsg(buf, atEOF) IN ~r.err /\ r.advance = 0
    /\ buf' = <<>>
    /\ scanning' = FALSE
    /\ UNCHANGED <<wire, atEOF, tokens, fill, scanErr, sent, lost, sessionVars,
                   pagerVars, auxVars>>

\* Scan: the split function returns an error; Scan returns false and Err()
\* is that error.
ScanFail ==
    /\ scanning /\ ~fill
    /\ SplitHttpMsg(buf, atEOF).err
    /\ scanErr' = TRUE
    /\ scanning' = FALSE
    /\ UNCHANGED <<wire, buf, atEOF, tokens, fill, sent, lost, sessionVars,
                   pagerVars, auxVars>>

\* ------------------------------------------------------------- impersonate
\* Text is a sequence of pieces: a method, "HTTP", a header name with its
\* colon, a value, one space, CR, LF.  The pieces that change under strings.ToLower:
ToLower1(c) ==
    CASE c = "POST" -> "post"
      [] c = "GET" -> "get"
      [] c = "HTTP" -> "http"
      [] c \in {"Host:", "HOST:"} -> "host:"
      [] c = "User-Agent:" -> "user-agent:"
      [] c \in {"Content-Type:", "Content-type:"} -> "content-type:"
      [] c = "Content-Length:" -> "content-length:"
      [] c \in {"ServerKey:", "Serverkey:"} -> "serverkey:"
      [] c = "Server:" -> "server:"
      [] c = "Cache-Control:" -> "cache-control:"
      [] c = "Connection:" -> "connection:"
      [] c = "X-A:" -> "x-a:"
      [] c = "X-B:" -> "x-b:"
      [] OTHER -> c

ToLower(s) == [i \in DOMAIN s |-> ToLower1(s[i])]

HasPrefix(s, prefix) ==
    Len(prefix) <= Len(s) /\ SubSeq(s, 1, Len(prefix)) = prefix

\* strings.Split and strings.Join on a one-piece separator.
RECURSIVE Split(_, _)
Split(s, sep) ==
    LET at == {i \in DOMAIN s : s[i] = sep}
        i == CHOOSE k \in at : \A j \in at : k <= j
    IN IF at = {} THEN <<s>>
       ELSE <<SubSeq(s, 1, i - 1)>> \o Split(SubSeq(s, i + 1, Len(s)), sep)

RECURSIVE Join(_, _)
Join(parts, sep) ==
    IF Len(parts) = 0 THEN <<>>
    ELSE IF Len(parts) = 1 THEN parts[1]
    ELSE parts[1] \o <<sep>> \o Join(Tail(parts), sep)

\* The concatenation of a sequence of texts.
RECURSIVE Concat(_)
Concat(parts) == IF parts = <<>> THEN <<>> ELSE Head(parts) \o Concat(Tail(parts))

\* bufio.ScanLines over data: the lines without their CR LF.
ScanLines(data) ==
    LET parts == Split(data, LF)
        lines == IF parts[Len(parts)] = <<>>
                 THEN SubSeq(parts, 1, Len(parts) - 1) ELSE parts
    IN [i \in DOMAIN lines |->
           IF Len(lines[i]) > 0 /\ lines[i][Len(lines[i])] = CR
           THEN SubSeq(lines[i], 1, Len(lines[i]) - 1) ELSE lines[i]]

\* The ordering tables.
eidc32RequestHeaderOrder ==
    <<<<"POST", SP>>, <<"Host:", SP>>, <<"Content-Type:", SP>>,
      <<"Content-Length:", SP>>, <<"ServerKey:">>>>
eidc32ResponseHeaderOrder ==
    <<<<"HTTP">>, <<"Server:">>, <<"Content-type:">>, <<"Content-Length:">>,
      <<"Cache-Control:">>>>
\* serverRequestHeaderOrder is preceded by a table with User-Agent: before
\* Host:.
serverRequestHeaderOrderAgentFirst ==
    <<<<"POST">>, <<"GET">>, <<"User-Agent:">>, <<"Host:">>,
      <<"Content-Type:">>, <<"Content-Length:">>>>
serverRequestHeaderOrder ==
    <<<<"POST">>, <<"GET">>, <<"Host:">>, <<"User-Agent:">>,
      <<"Content-Type:">>, <<"Content-Length:">>>>
serverResponseHeaderOrder ==
    <<<<"HTTP">>, <<"Content-Type:">>, <<"Content-Length:">>>>
serverQueryParamOrder == <<<<"username=">>, <<"password=">>, <<"seq=">>>>

\* The rewrite tables: pairs of a prefix and its replacement.
eidc32RequestHeaderRewrite == {<<<<"Serverkey:">>, <<"ServerKey:">>>>}
eidc32ResponseHeaderRewrite ==
    {<<<<"Content-Type:">>, <<"Content-type:">>>>,
     <<<<"Content-Length:">>, <<"Content-Length:", SP>>>>}
serverRequestHeaderRewrite == {}
serverResponseHeaderRewrite == {}

\* Less of the five sort types over ordering table order: whichever of s[i]
\* and s[j] is first to match an entry decides, s[i] before s[j] at the
\* same entry; true when neither matches any entry.
RECURSIVE LessFrom(_, _, _, _, _)
LessFrom(order, s, i, j, m) ==
    IF m > Len(order) THEN TRUE
    ELSE IF HasPrefix(ToLower(s[i]), ToLower(order[m])) THEN TRUE
    ELSE IF HasPrefix(ToLower(s[j]), ToLower(order[m])) THEN FALSE
    ELSE LessFrom(order, s, i, j, m + 1)

Less(order, s, i, j) == LessFrom(order, s, i, j, 1)

Swap(s, i, j) == [s EXCEPT ![i] = s[j], ![j] = s[i]]

\* sort.Sort for a slice of at most MaxLines elements, the insertion sort
\* of package sort: element i sinks while it is Less than the one before.
RECURSIVE Sink(_, _, _)
Sink(order, s, j) ==
    IF j > 1 /\ Less(order, s, j, j - 1)
    THEN Sink(order, Swap(s, j, j - 1), j - 1)
    ELSE s

RECURSIVE insertionSort(_, _, _)
insertionSort(order, s, i) ==
    IF i > Len(s) THEN s ELSE insertionSort(order, Sink(order, s, i), i + 1)

Sort(order, s) == insertionSort(order, s, 2)

\* do...HeaderRewrite: the line with the prefix of a table entry replaced.
Rewrite(table, line) ==
    IF \E e \in table : HasPrefix(line, e[1])
    THEN LET e == CHOOSE e \in table : HasPrefix(line, e[1])
         IN e[2] \o SubSeq(line, Len(e[1]) + 1, Len(line))
    ELSE line

\* doServerQueryParamSort
doServerQueryParamSort(in) ==
    LET lineParts == Split(in, SP)
        uri == lineParts[2]
        q == {i \in DOMAIN uri : uri[i] = "?"}
        h == {i \in DOMAIN uri : uri[i] = "#"}
        i == CHOOSE k \in q : \A x \in q : k <= x
        j == IF h = {} THEN Len(uri) + 1 ELSE CHOOSE k \in h : \A x \in h : k <= x
        part1a == SubSeq(uri, 1, i)
        part1b == SubSeq(uri, i + 1, j - 1)
        part1c == SubSeq(uri, j, Len(uri))
        params == Sort(serverQueryParamOrder, Split(part1b, "&"))
    IN IF Len(lineParts) < 2 THEN in
       ELSE IF q = {} THEN in
       ELSE Join([lineParts EXCEPT ![2] = part1a \o Join(params, "&") \o part1c],
                 SP)

\* The lines of the header of in, which ends at offset headerEnd.
HeaderLines(in, headerEnd) == ScanLines(SubSeq(in, 1, headerEnd))

\* The lines h written out, followed by extra and by the rest of in.
Rebuilt(in, headerEnd, h, extra) ==
    Concat(h) \o extra \o SubSeq(in, headerEnd + 1, Len(in))

\* impersonateEIDC32Request
impersonateEIDC32Request(in) ==
    LET headerEnd == Index(in, crlfcrlf) + 2
        lines == HeaderLines(in, headerEnd)
        h == [i \in DOMAIN lines |-> Rewrite(eidc32RequestHeaderRewrite, lines[i]) \o crlf]
    IN IF headerEnd <= 0 THEN [out |-> <<>>, err |-> TRUE]
       ELSE [out |-> Rebuilt(in, headerEnd, Sort(eidc32RequestHeaderOrder, h), <<>>),
             err |-> FALSE]

\* impersonateEIDC32Response: the Connection line is left out.
impersonateEIDC32Response(in) ==
    LET headerEnd == Index(in, crlfcrlf) + 2
        lines == SelectSeq(HeaderLines(in, headerEnd),
                           LAMBDA l : ~HasPrefix(l, <<"Connection:">>))
        h == [i \in DOMAIN lines |-> Rewrite(eidc32ResponseHeaderRewrite, lines[i]) \o crlf]
    IN IF headerEnd <= 0 THEN [out |-> <<>>, err |-> TRUE]
       ELSE [out |-> Rebuilt(in, headerEnd, Sort(eidc32ResponseHeaderOrder, h), <<>>),
             err |-> FALSE]

UAeIDCListener == "eIDCListener"

\* http.ReadRequest, as far as impersonateServerRequest looks at its result.
ReadRequest(in) ==
    LET lines == HeaderLines(in, Index(in, crlfcrlf) + 2)
        named(n) == {i \in DOMAIN lines : HasPrefix(ToLower(lines[i]), <<n>>)}
        value(n) == IF named(n) = {} THEN ""
                    ELSE LET l == lines[CHOOSE i \in named(n) : TRUE] IN l[Len(l)]
    IN [Method |-> in[1], UserAgent |-> value("user-agent:"),
        ContentLength |-> IF value("content-length:") \in {"", "0"} THEN 0 ELSE 1]

\* impersonateServerRequest: the parameters of the first line are sorted,
\* and a GET of eIDCListener without a body gets one more CR LF.
impersonateServerRequest(in) ==
    LET headerEnd == Index(in, crlfcrlf) + 2
        lines == HeaderLines(in, headerEnd)
        h0 == [i \in DOMAIN lines |-> Rewrite(serverRequestHeaderRewrite, lines[i]) \o crlf]
        h == [h0 EXCEPT ![1] = doServerQueryParamSort(h0[1])]
        req == ReadRequest(in)
        extra == IF /\ req.Method = "GET"
                    /\ req.UserAgent = UAeIDCListener
                    /\ req.ContentLength = 0
                 THEN crlf ELSE <<>>
    IN IF headerEnd <= 0 \/ Len(h0) < 1 THEN [out |-> <<>>, err |-> TRUE]
       ELSE [out |-> Rebuilt(in, headerEnd, Sort(serverRequestHeaderOrder, h), extra),
             err |-> FALSE]

\* impersonateServerResponse
impersonateServerResponse(in) ==
    LET headerEnd == Index(in, crlfcrlf) + 2
        lines == HeaderLines(in, headerEnd)
        h == [i \in DOMAIN lines |-> Rewrite(serverResponseHeaderRewrite, lines[i]) \o crlf]
    IN IF headerEnd <= 0 THEN [out |-> <<>>, err |-> TRUE]
       ELSE [out |-> Rebuilt(in, headerEnd, Sort(serverResponseHeaderOrder, h), <<>>),
             err |-> FALSE]

reqMethods == {"OPTIONS", "GET", "HEAD", "POST", "PUT", "DELETE", "TRACE", "CONNECT"}

isRequest(b) == \E m \in reqMethods : HasPrefix(b, <<m, SP>>)

isResponse(b) ==
    /\ Index(b, crlf) > 0
    /\ \E v \in {"/1.0", "/1.1"} : HasPrefix(b, <<"HTTP", v, SP>>)

\* impersonate
impersonate(in, dir) ==
    CASE isRequest(in) /\ dir = Northbound -> impersonateEIDC32Request(in)
      [] isRequest(in) /\ dir = Southbound -> impersonateServerRequest(in)
      [] isResponse(in) /\ dir = Northbound -> impersonateEIDC32Response(in)
      [] isResponse(in) /\ dir = Southbound -> impersonateServerResponse(in)
      [] OTHER -> [out |-> in, err |-> TRUE]

\* The header lines and first lines of the messages given to impersonate.
HdrHost == <<"Host:", SP, "h">>
HdrUserAgent == <<"User-Agent:", SP, UAeIDCListener>>
HdrContentType == <<"Content-Type:", SP, "application/json">>
HdrContentLength == <<"Content-Length:", SP, "0">>
HdrServerKey == <<"Serverkey:", SP, "k">>
HdrServer == <<"Server:", SP, "eIDC32 WebServer">>
HdrCacheControl == <<"Cache-Control:", SP, "no-cache">>
HdrConnection == <<"Connection:", SP, "close">>
HdrXA == <<"X-A:", SP, "1">>
HdrXB == <<"X-B:", SP, "2">>

QueryParams == {<<"username=", "b">>, <<"password=", "a">>, <<"seq=", "3">>}

\* The sequences of n different elements of S.
Arrangements(S, n) ==
    {f \in [1..n -> S] : \A i, j \in 1..n : f[i] = f[j] => i = j}

GetLines ==
    {<<"GET", SP, "/eidc/getoutbound", "?">> \o Join(q, "&") \o <<SP, "HTTP", "/1.1">> :
        q \in Arrangements(QueryParams, 3)}
PostLine == <<"POST", SP, "/eidc/connected", SP, "HTTP", "/1.1">>
StatusLine == <<"HTTP", "/1.0", SP, "200", SP, "OK">>

\* A message without a body: first line, header lines, blank line.
HttpHeader(first, hdrs) ==
    first \o crlf \o Concat([i \in DOMAIN hdrs |-> hdrs[i] \o crlf]) \o crlf

\* The messages of at most max lines with first line in firsts and
\* different header lines out of hdrs, in any order.
HttpHeaders(firsts, hdrs, max) ==
    {HttpHeader(first, hs) :
        first \in firsts,
        hs \in UNION {Arrangements(hdrs, n) : n \in 0..(max - 1)}}

\* Requests and responses of at most max lines for each of the four
\* routines.
InputsOf(max) ==
    [bytes : HttpHeaders(GetLines \cup {PostLine},
                         {HdrHost, HdrUserAgent, HdrContentType, HdrContentLength,
                          HdrXA, HdrXB}, max),
     dir : {Southbound}]
    \cup [bytes : HttpHeaders({PostLine},
                              {HdrHost, HdrContentType, HdrContentLength,
                               HdrServerKey, HdrXA, HdrXB}, max),
          dir : {Northbound}]
    \cup [bytes : HttpHeaders({StatusLine},
                              {HdrServer, HdrContentType, HdrContentLength,
                               HdrCacheControl, HdrConnection, HdrXA, HdrXB}, max),
          dir : {Northbound}]
    \cup [bytes : HttpHeaders({StatusLine},
                              {HdrContentType, HdrContentLength, HdrXA, HdrXB}, max),
          dir : {Southbound}]

ImpersonateInputs == InputsOf(MaxLines)

\* impersonate is applied to its argument.
Impersonate ==
    /\ pure.fn = "impersonate"
    /\ ~pure.done
    /\ pure' = [pure EXCEPT !.out = impersonate(pure.in.bytes, pure.in.dir),
                            !.done = TRUE]
    /\ UNCHANGED <<sessionVars, pagerVars, framerVars, server>>

\* ------------------------------------------- relayOutboundHalf, in bytes
\* The message the outbound half holds, as far as its bytes go: what
\* Marshal returns for it and its origBytes.
Rendering(bytes) == [out |-> bytes, err |-> FALSE]
MarshalError == [out |-> <<>>, err |-> TRUE]

\* payload: Marshal's bytes, or origBytes when Marshal reports an error.
payload(msg) == IF msg.marshal.err THEN msg.origBytes ELSE msg.marshal.out

\* impostor with the impersonation left out.
impostorUnmodified(p, r) == p

\* impostor: the bytes impersonate returned (r) for the payload p, or the
\* payload when impersonate reported an error.
impostor(p, r) == IF r.err THEN p ELSE r.out

\* The errors the outbound half reports for the message before the write.
writeErrs(msg, r) ==
    (IF msg.marshal.err THEN 1 ELSE 0) + (IF r.err THEN 1 ELSE 0)

\* A request with a method that is none of reqMethods, as a mangler can
\* leave it.
PatchLine == <<"PATCH", SP, "/eidc/connected", SP, "HTTP", "/1.1">>

\* Messages of at most MaxWriteLines lines.
ShortInputs == InputsOf(MaxWriteLines)

\* The messages given to the outbound half: relayed ones that Marshal
\* renders, relayed ones on which Marshal fails, injected ones (no
\* origBytes) on which it fails, and ones with an unknown method.
WriteInputs ==
    {[msg |-> [marshal |-> Rendering(x.bytes), origBytes |-> x.bytes], dir |-> x.dir] :
        x \in ShortInputs}
    \cup {[msg |-> [marshal |-> Rendering(x.bytes), origBytes |-> <<>>], dir |-> x.dir] :
            x \in ShortInputs}
    \cup {[msg |-> [marshal |-> MarshalError, origBytes |-> x.bytes], dir |-> x.dir] :
            x \in ShortInputs}
    \cup {[msg |-> [marshal |-> m, origBytes |-> <<>>], dir |-> d] :
            m \in {MarshalError, Rendering(HttpHeader(PatchLine, <<HdrContentLength, HdrHost>>))},
            d \in Dirs}

\* The outbound half renders the message it holds, impersonates it and
\* writes the bytes to the socket.
Write ==
    /\ pure.fn = "write"
    /\ ~pure.done
    /\ \E p \in {payload(pure.in.msg)} :
       \E r \in {impersonate(p, pure.in.dir)} :
          pure' = [pure EXCEPT !.out = [written |-> impostor(p, r),
                                        errs |-> writeErrs(pure.in.msg, r)],
                               !.done = TRUE]
    /\ UNCHANGED <<sessionVars, pagerVars, framerVars, server>>

\* --------------------------------------------------------- canonicalizeHost
\* A host is a sequence of characters.
IsDigit(c) == c \in {"0", "1", "2", "3", "4", "5", "6", "7", "8", "9"}

\* regexp ":[0-9]+" : there is a match somewhere in the text.
MatchesPortAnywhere(in) ==
    \E i \in DOMAIN in : \E j \in DOMAIN in :
        /\ in[i] = ":"
        /\ i < j
        /\ \A k \in (i + 1)..j : IsDigit(in[k])

\* regexp ":[0-9]+$" : there is a match that ends where the text ends.
MatchesPort(in) ==
    \E i \in DOMAIN in :
        /\ in[i] = ":"
        /\ i < Len(in)
        /\ \A k \in (i + 1)..Len(in) : IsDigit(in[k])

canonicalizeHost(in) ==
    IF MatchesPort(in) THEN in ELSE in \o <<":", "4", "4", "3">>

\* The hosts canonicalizeHost is given: every text of at most MaxHost
\* characters out of HostChars.
HostChars == {"f", ".", ":", "1", "3", "LF"}
Hosts == UNION {[1..n -> HostChars] : n \in 0..MaxHost}

\* canonicalizeHost is applied to the host, then to its own result.
CanonicalizeHost ==
    /\ pure.fn = "canonicalizeHost"
    /\ ~pure.done
    /\ pure' = [pure EXCEPT
                  !.out = Append(@, canonicalizeHost(IF @ = <<>> THEN pure.in
                                                     ELSE @[Len(@)])),
                  !.done = (Len(pure.out) = 1)]
    /\ UNCHANGED <<sessionVars, pagerVars, framerVars, server>>

\* ------------------------------------------- getSouthboundRequestType
MsgTypeGetoutboundRequest == "GetoutboundRequest"
MsgTypeEnableEventsRequest == "EnableEventsRequest"
MsgTypeResetEventsRequest == "ResetEventsRequest"
MsgTypeClearPointsRequest == "ClearPointsRequest"
MsgTypeResetPointEngineRequest == "ResetPointEngineRequest"
MsgTypeClearSchedulesRequest == "ClearSchedulesRequest"
MsgTypeClearHolidaysRequest == "ClearHolidaysRequest"
MsgTypeClearPrivilegesRequest == "ClearPrivilegesRequest"
MsgTypeClearCardsRequest == "ClearCardsRequest"
MsgTypeReflashRequest == "ReflashRequest"
MsgTypeSetTimeRequest == "SetTimeRequest"
MsgTypeSetWebUserRequest == "SetWebUserRequest"
MsgTypeGetPointStatusRequest == "GetPointStatusRequest"
MsgTypeSetOutboundRequest == "SetOutboundRequest"
MsgTypeAddPointsRequest == "AddPointsRequest"
MsgTypeAddFormatsRequest == "AddFormatsRequest"
MsgTypeAddPrivilegesRequest == "AddPrivilegesRequest"
MsgTypeAddCardsRequest == "AddCardsRequest"
MsgTypeSetConfigKeyRequest == "SetConfigKeyRequest"
MsgTypeSetDeviceIDRequest == "SetDeviceIDRequest"
MsgTypeAddSchedulesRequest == "AddSchedulesRequest"
MsgTypeDownloadRequest == "DownloadRequest"

heartbeatRequestURI == "/eidc/heartbeat"
getOutboundRequestURI == "/eidc/getoutbound"
enableEventsRequestURI == "/eidc/enableevents"
setTimeRequestURI == "/eidc/setTime"
setWebUserRequestURI == "/eidc/setwebuser"
getPointStatusRequestURI == "/eidc/getPointStatus"
eventAckRequestURI == "/eidc/eventack"
doorLockStatusRequestURI == "/eidc/door/lockstatus"
resetEventsRequestURI == "/eidc/resetevents"
clearPointsRequestURI == "/eidc/clearPoints"
addPointsRequestURI == "/eidc/addPoints"
resetPointEngineRequestURI == "/eidc/resetPointEngine"
clearFormatsRequestURI == "/eidc/clearformats"
addFormatsRequestURI == "/eidc/addFormats"
clearSchedulesRequestURI == "/eidc/clearSchedules"
clearHolidaysRequestURI == "/eidc/clearHolidays"
addSchedulesRequestURI == "/eidc/addSchedules"
clearPrivilegesRequestURI == "/eidc/clearPrivileges"
addPrivilegesRequestURI == "/eidc/addPrivileges"
clearCardsRequestURI == "/eidc/clearCards"
addCardsRequestURI == "/eidc/addCards"
setConfigKeyRequestURI == "/eidc/setConfigKey"
setDeviceIDRequestURI == "/eidc/setDeviceID"
setOutboundRequestURI == "/eidc/setoutbound"
downloadRequestURI == "/eidc/download"
reflashRequestURI == "/eidc/reflash"

MethodGet == "GET"
MethodPost == "POST"

\* The type of a southbound request, from its method and its path.
getSouthboundRequestType(method, path) ==
    IF method = MethodGet THEN
        CASE path = heartbeatRequestURI -> MsgTypeHeartbeatRequest
          [] path = getOutboundRequestURI -> MsgTypeGetoutboundRequest
          [] path = enableEventsRequestURI -> MsgTypeEnableEventsRequest
          [] path = resetEventsRequestURI -> MsgTypeResetEventsRequest
          [] path = clearPointsRequestURI -> MsgTypeClearPointsRequest
          [] path = resetPointEngineRequestURI -> MsgTypeResetPointEngineRequest
          [] path = clearFormatsRequestURI -> MsgTypeClearPointsRequest
          [] path = clearSchedulesRequestURI -> MsgTypeClearSchedulesRequest
          [] path = clearHolidaysRequestURI -> MsgTypeClearHolidaysRequest
          [] path = clearPrivilegesRequestURI -> MsgTypeClearPrivilegesRequest
          [] path = clearCardsRequestURI -> MsgTypeClearCardsRequest
          [] path = reflashRequestURI -> MsgTypeReflashRequest
          [] OTHER -> MsgTypeUnknown
    ELSE IF method = MethodPost THEN
        CASE path = setTimeRequestURI -> MsgTypeSetTimeRequest
          [] path = setWebUserRequestURI -> MsgTypeSetWebUserRequest
          [] path = getPointStatusRequestURI -> MsgTypeGetPointStatusRequest
          [] path = eventAckRequestURI -> MsgTypeEventAckRequest
          [] path = doorLockStatusRequestURI -> MsgTypeDoor0x2fLockStatusRequest
          [] path = setOutboundRequestURI -> MsgTypeSetOutboundRequest
          [] path = addPointsRequestURI -> MsgTypeAddPointsRequest
          [] path = addFormatsRequestURI -> MsgTypeAddFormatsRequest
          [] path = addPrivilegesRequestURI -> MsgTypeAddPrivilegesRequest
          [] path = addCardsRequestURI -> MsgTypeAddCardsRequest
          [] path = setConfigKeyRequestURI -> MsgTypeSetConfigKeyRequest
          [] path = setDeviceIDRequestURI -> MsgTypeSetDeviceIDRequest
          [] path = addSchedulesRequestURI -> MsgTypeAddSchedulesRequest
          [] path = downloadRequestURI -> MsgTypeDownloadRequest
          [] OTHER -> MsgTypeUnknown
    ELSE MsgTypeUnknown

\* The paths of the URI table.
RequestURIs ==
    {heartbeatRequestURI,
     getOutboundRequestURI,
     enableEventsRequestURI,
     setTimeRequestURI,
     setWebUserRequestURI,
     getPointStatusRequestURI,
     eventAckRequestURI,
     doorLockStatusRequestURI,
     resetEventsRequestURI,
     clearPointsRequestURI,
     addPointsRequestURI,
     resetPointEngineRequestURI,
     clearFormatsRequestURI,
     addFormatsRequestURI,
     clearSchedulesRequestURI,
     clearHolidaysRequestURI,
     addSchedulesRequestURI,
     clearPrivilegesRequestURI,
     addPrivilegesRequestURI,
     clearCardsRequestURI,
     addCardsRequestURI,
     setConfigKeyRequestURI,
     setDeviceIDRequestURI,
     setOutboundRequestURI,
     downloadRequestURI,
     reflashRequestURI}

\* The requests typed: every method of Methods with every path of the
\* URI table and one path that is not in it.
Methods == {MethodGet, MethodPost, "PUT"}
TypedRequests == [method : Methods, path : RequestURIs \cup {"/eidc/other"}]

GetSouthboundRequestType ==
    /\ pure.fn = "getSouthboundRequestType"
    /\ ~pure.done
    /\ pure' = [pure EXCEPT
                  !.out = getSouthboundRequestType(pure.in.method, pure.in.path),
                  !.done = TRUE]
    /\ UNCHANGED <<sessionVars, pagerVars, framerVars, server>>

\* ------------------------------------------------------------------ Server
errConnClosed == "use of closed network connection"
errAccept == "accept error"
errNewSession == "newSession error"

\* A session channel SubscribeSessions has not made yet, and a goroutine
\* that serve has just started for an accepted connection.
NoSessChan == [state |-> "none", got |-> 0]
NewAnnouncer == [pc |-> "new", left |-> {}]

\* NewServer: nothing listens, no goroutine runs, no subscriber.
NewServer ==
    [nl |-> "none",
     stop |-> "none",
     err |-> [closed |-> FALSE, got |-> <<>>],
     serve |-> [pc |-> "none", err |-> "none", panicking |-> FALSE],
     sessChMap |-> {},
     sessCh |-> [c \in 1..MaxSessSubs |-> NoSessChan],
     sessChMutex |-> "free",
     announce |-> <<>>,
     naccerr |-> 0,
     crashed |-> FALSE]

\* Serve: the listener is open, the accept loop and the goroutine that
\* waits on the stop channel are started.
Serve ==
    /\ ~server.crashed
    /\ server.nl = "none"
    /\ server' = [server EXCEPT !.nl = "open", !.serve.pc = "accept", !.stop = "wait"]
    /\ UNCHANGED <<sessionVars, pagerVars, framerVars, pure>>

\* Stop: the send on the stop channel meets the receive of the goroutine
\* Serve started.
Stop ==
    /\ ~server.crashed
    /\ server.stop = "wait"
    /\ server' = [server EXCEPT !.stop = "closeListener"]
    /\ UNCHANGED <<sessionVars, pagerVars, framerVars, pure>>

\* That goroutine closes the listener, ...
StopCloseListener ==
    /\ ~server.crashed
    /\ server.stop = "closeListener"
    /\ server' = [server EXCEPT !.nl = "closed", !.stop = "closeStop"]
    /\ UNCHANGED <<sessionVars, pagerVars, framerVars, pure>>

\* ... the stop channel ...
StopCloseStop ==
    /\ ~server.crashed
    /\ server.stop = "closeStop"
    /\ server' = [server EXCEPT !.stop = "closeErr"]
    /\ UNCHANGED <<sessionVars, pagerVars, framerVars, pure>>

\* ... and the error channel.
StopCloseErr ==
    /\ ~server.crashed
    /\ server.stop = "closeErr"
    /\ server' = [server EXCEPT !.err.closed = TRUE, !.stop = "done"]
    /\ UNCHANGED <<sessionVars, pagerVars, framerVars, pure>>

\* Stop is called again: nothing receives from the stop channel any more,
\* so the send waits; once the goroutine of Serve has closed the channel
\* the send panics and the program ends.
StopAgain ==
    /\ ~server.crashed
    /\ server.stop \in {"closeErr", "done"}
    /\ server' = [server EXCEPT !.stop = "sendPanics", !.crashed = TRUE]
    /\ UNCHANGED <<sessionVars, pagerVars, framerVars, pure>>

\* serve: Accept returns a connection, a goroutine is started for it.
AcceptConn ==
    /\ ~server.crashed
    /\ server.serve.pc = "accept"
    /\ server.nl = "open"
    /\ Len(server.announce) < MaxConns
    /\ server' = [server EXCEPT !.announce = Append(@, NewAnnouncer)]
    /\ UNCHANGED <<sessionVars, pagerVars, framerVars, pure>>

\* serve: Accept returns an error while the listener is open.
AcceptError ==
    /\ ~server.crashed
    /\ server.serve.pc = "accept"
    /\ server.nl = "open"
    /\ server.naccerr < MaxAcceptErrs
    /\ server' = [server EXCEPT !.serve.pc = "err", !.serve.err = errAccept,
                                !.naccerr = @ + 1]
    /\ UNCHANGED <<sessionVars, pagerVars, framerVars, pure>>

\* serve: the listener is closed, Accept returns the error that says so.
AcceptClosed ==
    /\ ~server.crashed
    /\ server.serve.pc = "accept"
    /\ server.nl = "closed"
    /\ server' = [server EXCEPT !.serve.pc = "err", !.serve.err = errConnClosed]
    /\ UNCHANGED <<sessionVars, pagerVars, framerVars, pure>>

\* serve: where the loop goes after the error is sent.
afterErr(e) == IF e = errConnClosed THEN "unsub" ELSE "accept"

\* serve: the send on the error channel meets a receive; the loop returns
\* on the closed listener and continues otherwise.
ServeSendErr ==
    /\ ~server.crashed
    /\ server.serve.pc = "err"
    /\ ~server.err.closed
    /\ server' = [server EXCEPT !.err.got = Append(@, server.serve.err),
                                !.serve.pc = afterErr(server.serve.err),
                                !.serve.err = "none"]
    /\ UNCHANGED <<sessionVars, pagerVars, framerVars, pure>>

\* serve: the error channel is closed, the send panics; the deferred
\* unsubEverybody runs before the program ends.
ServeSendPanics ==
    /\ ~server.crashed
    /\ server.serve.pc = "err"
    /\ server.err.closed
    /\ server' = [server EXCEPT !.serve.pc = "unsub", !.serve.panicking = TRUE]
    /\ UNCHANGED <<sessionVars, pagerVars, framerVars, pure>>

\* unsubEverybody takes the mutex, ...
UnsubLock ==
    /\ ~server.crashed
    /\ server.serve.pc = "unsub"
    /\ server.sessChMutex = "free"
    /\ server' = [server EXCEPT !.sessChMutex = "held", !.serve.pc = "closing"]
    /\ UNCHANGED <<sessionVars, pagerVars, framerVars, pure>>

\* ... closes and deletes every channel of the map and releases the mutex;
\* serve has returned, or the panic ends the program.
UnsubClose ==
    /\ ~server.crashed
    /\ server.serve.pc = "closing"
    /\ server' = [server EXCEPT
                    !.sessCh = [c \in DOMAIN @ |->
                                   IF c \in server.sessChMap
                                   THEN [@[c] EXCEPT !.state = "closed"] ELSE @[c]],
                    !.sessChMap = {},
                    !.sessChMutex = "free",
                    !.serve.pc = "done",
                    !.crashed = server.serve.panicking]
    /\ UNCHANGED <<sessionVars, pagerVars, framerVars, pure>>

\* SubscribeSessions
SubscribeSessions ==
    /\ ~server.crashed
    /\ server.sessChMutex = "free"
    /\ \E c \in DOMAIN server.sessCh :
          /\ server.sessCh[c].state = "none"
          /\ \A b \in DOMAIN server.sessCh : b < c => server.sessCh[b].state # "none"
          /\ server' = [server EXCEPT !.sessCh[c].state = "open",
                                      !.sessChMap = @ \cup {c}]
    /\ UNCHANGED <<sessionVars, pagerVars, framerVars, pure>>

\* UnSubscribeSessions
UnSubscribeSessions(c) ==
    /\ ~server.crashed
    /\ server.sessChMutex = "free"
    /\ c \in server.sessChMap
    /\ server' = [server EXCEPT !.sessChMap = @ \ {c}]
    /\ UNCHANGED <<sessionVars, pagerVars, framerVars, pure>>

\* The goroutine of a connection: newSession succeeds.
AnnounceNew(k) ==
    /\ ~server.crashed
    /\ server.announce[k].pc = "new"
    /\ server' = [server EXCEPT !.announce[k].pc = "lock"]
    /\ UNCHANGED <<sessionVars, pagerVars, framerVars, pure>>

\* newSession fails.
AnnounceFail(k) ==
    /\ ~server.crashed
    /\ server.announce[k].pc = "new"
    /\ server' = [server EXCEPT !.announce[k].pc = "err"]
    /\ UNCHANGED <<sessionVars, pagerVars, framerVars, pure>>

\* Its send on the error channel meets a receive.
AnnounceSendErr(k) ==
    /\ ~server.crashed
    /\ server.announce[k].pc = "err"
    /\ ~server.err.closed
    /\ server' = [server EXCEPT !.err.got = Append(@, errNewSession),
                                !.announce[k].pc = "done"]
    /\ UNCHANGED <<sessionVars, pagerVars, framerVars, pure>>

\* The error channel is closed: the send panics and the program ends.
AnnounceSendPanics(k) ==
    /\ ~server.crashed
    /\ server.announce[k].pc = "err"
    /\ server.err.closed
    /\ server' = [server EXCEPT !.crashed = TRUE]
    /\ UNCHANGED <<sessionVars, pagerVars, framerVars, pure>>

\* It takes the mutex to send the session on every channel of the map.
AnnounceLock(k) ==
    /\ ~server.crashed
    /\ server.announce[k].pc = "lock"
    /\ server.sessChMutex = "free"
    /\ server' = [server EXCEPT !.sessChMutex = "held",
                                !.announce[k] = [pc |-> "send", left |-> server.sessChMap]]
    /\ UNCHANGED <<sessionVars, pagerVars, framerVars, pure>>

\* Its send on a channel of the map meets the subscriber's receive.
AnnounceSend(k, c) ==
    /\ ~server.crashed
    /\ server.announce[k].pc = "send"
    /\ c \in server.announce[k].left
    /\ server' = [server EXCEPT !.sessCh[c].got = @ + 1,
                                !.announce[k].left = @ \ {c}]
    /\ UNCHANGED <<sessionVars, pagerVars, framerVars, pure>>

\* Every channel got the session: the mutex is released.
AnnounceUnlock(k) ==
    /\ ~server.crashed
    /\ server.announce[k].pc = "send"
    /\ server.announce[k].left = {}
    /\ server' = [server EXCEPT !.sessChMutex = "free", !.announce[k].pc = "done"]
    /\ UNCHANGED <<sessionVars, pagerVars, framerVars, pure>>

\* What a run of SpecPager and a run of SpecPagerLive explore.
PagerEnv == [IdleEnv EXCEPT !.results = {}] @@ [subInfos |-> SubInfos]

PagerLiveEnv ==
    [IdleEnv EXCEPT !.results = {}]
    @@ [subInfos |-> {SubInfo(SubMsgCatAny, <<>>), SubInfo(SubMsgCatAnyNB, <<>>),
                      SubInfo(SubMsgCatAnySB, <<MsgTypeHeartbeatResponse>>)}]

\* NewMessagePager
InitMessagePager ==
    /\ mu = "free"
    /\ typesToChans = <<>>
    /\ catsToChans = <<>>
    /\ chans = [c \in 1..MaxSubs |-> NoChan]
    /\ dist = NoDist
    /\ offers = <<>>

\* The set of channels under key k of one of the two maps.
ChansOf(map, k) == IF k \in DOMAIN map THEN map[k] ELSE {}

\* A map with channel c added under every key of ks.
Registering(map, ks, c) ==
    [k \in DOMAIN map \cup ks |->
        IF k \in ks THEN ChansOf(map, k) \cup {c} ELSE map[k]]

\* subscribeByCategory: the categories a requested category stands for.  It
\* is preceded by an expansion that gives a direction its requests only.
msgCatsRequestsOnly(requested) ==
    CASE requested = SubMsgCatAny ->
           {SubMsgCatAnyNBReq, SubMsgCatAnyNBResp, SubMsgCatAnySBReq,
            SubMsgCatAnySBResp}
      [] requested = SubMsgCatAnyNB -> {SubMsgCatAnyNBReq}
      [] requested = SubMsgCatAnySB -> {SubMsgCatAnySBReq}
      [] requested = SubMsgCatAnyReq -> {SubMsgCatAnyNBReq, SubMsgCatAnySBReq}
      [] requested = SubMsgCatAnyResp -> {SubMsgCatAnyNBResp, SubMsgCatAnySBResp}
      [] OTHER -> {requested}

msgCats(requested) ==
    CASE requested = SubMsgCatAny ->
           {SubMsgCatAnyNBReq, SubMsgCatAnyNBResp, SubMsgCatAnySBReq,
            SubMsgCatAnySBResp}
      [] requested = SubMsgCatAnyNB -> {SubMsgCatAnyNBReq, SubMsgCatAnyNBResp}
      [] requested = SubMsgCatAnySB -> {SubMsgCatAnySBReq, SubMsgCatAnySBResp}
      [] requested = SubMsgCatAnyReq -> {SubMsgCatAnyNBReq, SubMsgCatAnySBReq}
      [] requested = SubMsgCatAnyResp -> {SubMsgCatAnyNBResp, SubMsgCatAnySBResp}
      [] OTHER -> {requested}

\* The message types of a subscription by type.
msgTypes(info) == {info.MsgTypes[i] : i \in DOMAIN info.MsgTypes}

\* The first channel not yet made.
NewChan == CHOOSE c \in 1..MaxSubs :
              chans[c].state = "none" /\ \A b \in 1..(c - 1) : chans[b].state # "none"

\* eidcMessagePager.Subscribe, from Lock to Unlock: by type when the list of
\* types is not empty, by category otherwise.
Subscribe ==
    /\ mu = "free"
    /\ \E c \in 1..MaxSubs : chans[c].state = "none"
    /\ \E info \in env.subInfos :
          /\ IF Len(info.MsgTypes) > 0
             THEN /\ typesToChans' = Registering(typesToChans, msgTypes(info), NewChan)
                  /\ UNCHANGED catsToChans
             ELSE /\ catsToChans' = Registering(catsToChans, msgCats(info.Category), NewChan)
                  /\ UNCHANGED typesToChans
          /\ chans' = [chans EXCEPT ![NewChan] =
                          [sub |-> "yes", state |-> "open", info |-> info,
                           ready |-> FALSE, got |-> <<>>]]
    /\ UNCHANGED <<mu, dist, offers, sessionVars, framerVars, auxVars>>

\* delete(chanMap, c); it is preceded by a delete that deletes nothing.
deleteNothing(set, c) == set
deleteChan(set, c) == set \ {c}

\* delete(o.typesToChans, msgType) for the keys of ks left with no channel;
\* it is preceded by one that leaves every key in place.
deleteNoKey(map, ks) == map
deleteKey(map, ks) ==
    [k \in {x \in DOMAIN map : ~(x \in ks /\ map[x] = {})} |-> map[k]]

\* The loop of an unsubscribe function over its keys ks.
Unregistering(map, ks, c) ==
    deleteKey([k \in DOMAIN map |->
                  IF k \in ks THEN deleteChan(map[k], c) ELSE map[k]], ks)

\* The unsubscribe function of channel c, from Lock to Unlock.
UnsubscribeRemove(c) ==
    /\ mu = "free"
    /\ chans[c].sub = "yes"
    /\ IF Len(chans[c].info.MsgTypes) > 0
       THEN /\ typesToChans' = Unregistering(typesToChans, msgTypes(chans[c].info), c)
            /\ UNCHANGED catsToChans
       ELSE /\ catsToChans' = Unregistering(catsToChans, msgCats(chans[c].info.Category), c)
            /\ UNCHANGED typesToChans
    /\ chans' = [chans EXCEPT ![c].sub = "removed"]
    /\ UNCHANGED <<mu, dist, offers, sessionVars, framerVars, auxVars>>

\* The unsubscribe function of channel c: close(c), after Unlock.
UnsubscribeClose(c) ==
    /\ chans[c].sub = "removed"
    /\ chans' = [chans EXCEPT ![c].sub = "gone", ![c].state = "closed",
                              ![c].ready = FALSE]
    /\ UNCHANGED <<mu, typesToChans, catsToChans, dist, offers, sessionVars,
                   framerVars, auxVars>>

\* The subscriber of channel c starts to receive from it.
SubscriberReceive(c) ==
    /\ chans[c].state = "open"
    /\ ~chans[c].ready
    /\ chans' = [chans EXCEPT ![c].ready = TRUE]
    /\ UNCHANGED <<mu, typesToChans, catsToChans, dist, offers, sessionVars,
                   framerVars, auxVars>>

\* DistributeMessage: the category of the message.  Without a request and
\* without a response it is the zero value of SubMsgCat.
thisMsgCategory(msg) ==
    CASE msg.direction = Northbound /\ msg.Response -> SubMsgCatAnyNBResp
      [] msg.direction = Northbound /\ msg.Request -> SubMsgCatAnyNBReq
      [] msg.direction = Southbound /\ msg.Response -> SubMsgCatAnySBResp
      [] msg.direction = Southbound /\ msg.Request -> SubMsgCatAnySBReq
      [] OTHER -> SubMsgCatAny

\* sendTo: the channel after the select between the send and the timer.  A
\* subscriber that is receiving gets the message; otherwise the timer fires.
\* It is preceded by a send that always runs into the timer.
sendToTimesOut(ch, n, msg) == ch
sendTo(ch, n, msg) ==
    IF ch.ready
    THEN [ch EXCEPT !.got = Append(@, [n |-> n, msg |-> msg]), !.ready = FALSE]
    ELSE ch

\* What a send on channel c of call n amounts to.
Offer(n, c) ==
    [n |-> n, c |-> c, ready |-> chans[c].ready,
     closed |-> chans[c].state = "closed"]

\* DistributeMessage takes the pager's lock.
DistributeBegin(msg) ==
    /\ mu = "free"
    /\ dist.pc = "idle"
    /\ dist.n < MaxDist
    /\ mu' = "DistributeMessage"
    /\ dist' = [pc |-> "cats", n |-> dist.n + 1, msg |-> msg, seen |-> {}]
    /\ UNCHANGED <<typesToChans, catsToChans, chans, offers, sessionVars,
                   framerVars, auxVars>>

\* One iteration of the loop over the channels of the message's category,
\* or its end.
DistributeCats ==
    /\ dist.pc = "cats"
    /\ LET todo == ChansOf(catsToChans, thisMsgCategory(dist.msg)) \ dist.seen
       IN IF todo = {}
          THEN /\ dist' = [dist EXCEPT !.pc = "types", !.seen = {}]
               /\ UNCHANGED <<chans, offers>>
          ELSE \E c \in todo :
                  /\ offers' = Append(offers, Offer(dist.n, c))
                  /\ chans' = [chans EXCEPT ![c] = sendTo(@, dist.n, dist.msg)]
                  /\ dist' = [dist EXCEPT !.seen = @ \cup {c}]
    /\ UNCHANGED <<mu, typesToChans, catsToChans, sessionVars, framerVars, auxVars>>

\* One iteration of the loop over the channels of the message's type, or
\* its end and the deferred Unlock.
DistributeTypes ==
    /\ dist.pc = "types"
    /\ LET todo == ChansOf(typesToChans, dist.msg.Type) \ dist.seen
       IN IF todo = {}
          THEN /\ dist' = [dist EXCEPT !.pc = "idle", !.seen = {}]
               /\ mu' = "free"
               /\ UNCHANGED <<chans, offers>>
          ELSE \E c \in todo :
                  /\ offers' = Append(offers, Offer(dist.n, c))
                  /\ chans' = [chans EXCEPT ![c] = sendTo(@, dist.n, dist.msg)]
                  /\ dist' = [dist EXCEPT !.seen = @ \cup {c}]
                  /\ UNCHANGED mu
    /\ UNCHANGED <<typesToChans, catsToChans, sessionVars, framerVars, auxVars>>

\* ----------------------------------------------------------------- initial
\* The messages and manglers handed to Session.Inject: a heartbeat request
\* from NewHeartbeatMsg, alone, with the mangler that drops its response, or
\* such that Marshal fails on it.
InjectMessage(j) ==
    [Message(<<"Inject", j>>, Southbound, TRUE, MsgTypeHeartbeatRequest, 0,
             TRUE, NoId, TRUE)
        EXCEPT !.hasOrig = FALSE]

\* NewLockStatusMsg and NewEventAckMsg
NewLockStatusMsg(j) ==
    [InjectMessage(j) EXCEPT !.Type = MsgTypeDoor0x2fLockStatusRequest]
NewEventAckMsg(j, id) ==
    [InjectMessage(j) EXCEPT !.Type = MsgTypeEventAckRequest, !.EventID = id]

\* SetLockStatus(Unlocked, stealth): the manglers it hands to Inject.
SetLockStatusManglers(stealth) ==
    <<dropEidcResponse(MsgTypeDoor0x2fLockStatusResponse)>>
    \o (IF stealth
        THEN <<DropEidcEvent(EventAccessGranted, TRUE),
               DropEidcPointStatusRequest(12),
               DropEidcPointStatusRequest(38),
               DropEidcPointStatusRequest(16)>>
        ELSE <<>>)

\* The goroutine DropEidcEvent.Mangle starts when it drops an event: Inject
\* of the acknowledgement with the mangler that drops the response to it.
EventAcks(m, msg, mr, j) ==
    IF m.kind = "DropEidcEvent" /\ ManglerDrop \subseteq mr
    THEN <<[pc |-> "lock", msg |-> NewEventAckMsg(j, msg.EventID),
            manglers |-> <<dropEidcResponse(MsgTypeEventAckResponse)>>]>>
    ELSE <<>>

InjectInput(j, what) ==
    CASE what = "dropResponse" ->
           [pc |-> "lock", msg |-> InjectMessage(j),
            manglers |-> <<dropEidcResponse(MsgTypeHeartbeatResponse)>>]
      [] what = "marshalFails" ->
           [pc |-> "lock", msg |-> [InjectMessage(j) EXCEPT !.marshalOk = FALSE],
            manglers |-> <<>>]
      [] what = "connected" ->
           [pc |-> "lock",
            msg |-> [Message(<<"Inject", j>>, Southbound, FALSE,
                             MsgTypeConnectedResponse, NoSeq, TRUE, NoId, TRUE)
                        EXCEPT !.ServerKey = "K1", !.hasOrig = FALSE],
            manglers |-> <<>>]
      [] what = "SetLockStatus" ->
           [pc |-> "lock", msg |-> NewLockStatusMsg(j),
            manglers |-> SetLockStatusManglers(FALSE)]
      [] what = "SetLockStatusStealth" ->
           [pc |-> "lock", msg |-> NewLockStatusMsg(j),
            manglers |-> SetLockStatusManglers(TRUE)]
      [] OTHER ->
           [pc |-> "lock", msg |-> InjectMessage(j), manglers |-> <<>>]

\* The results a mangler supplied by the embedder may return.
UserResults ==
    {ManglerNoop, ManglerDrop, ManglerDone, ManglerDrop \cup ManglerDone}

\* What a run of Spec explores.
RegistryEnv ==
    [maxNorth |-> MaxNorth, maxSouth |-> MaxSouth, maxInject |-> MaxInject,
     maxAdd |-> MaxAdd, maxDel |-> MaxDel,
     north |-> {"event"}, south |-> {}, seqs |-> {7},
     results |-> UserResults,
     add |-> {UserMangler, DropMessageByType(MsgTypeEventRequest, 1)},
     inject |-> {"plain"}, keys |-> {LoginKey}, bodies |-> {TRUE}]

\* What a run of SpecRelay explores.
RelayEnv ==
    [maxNorth |-> RelayMaxNorth, maxSouth |-> RelayMaxSouth,
     maxInject |-> RelayMaxInject, maxAdd |-> 0, maxDel |-> 0,
     north |-> {"event", "garbage", "response"},
     south |-> {"badquery", "response", "garbage"}, seqs |-> {1, 7, NoSeq, BadSeq},
     results |-> {},
     add |-> {},
     inject |-> {"plain", "dropResponse", "marshalFails"},
     keys |-> {LoginKey}, bodies |-> {TRUE}]

\* What a run of SpecStealth explores.
StealthEnv ==
    [maxNorth |-> StealthMaxNorth, maxSouth |-> 0,
     maxInject |-> StealthMaxInject, maxAdd |-> 0, maxDel |-> 0,
     north |-> {"access", "points", "response"},
     south |-> {}, seqs |-> {},
     results |-> {},
     add |-> {},
     inject |-> {"SetLockStatusStealth"},
     keys |-> {LoginKey}, bodies |-> {TRUE}]

\* What a run of SpecSuppress explores.
SuppressEnv ==
    [maxNorth |-> SuppressMaxNorth, maxSouth |-> SuppressMaxSouth,
     maxInject |-> 0, maxAdd |-> SuppressMaxAdd, maxDel |-> 0,
     north |-> {"granted", "response"},
     south |-> {"eventack"}, seqs |-> {},
     results |-> {},
     add |-> {DropEidcEvent(EventAccessGranted, FALSE)},
     inject |-> {},
     keys |-> {LoginKey}, bodies |-> {TRUE}]

\* The results of a mangler of the embedder that reports errors.
ErrResults ==
    {ManglerNoop, ManglerErr, ManglerErr \cup ManglerDone,
     ManglerErr \cup ManglerDrop, ManglerDrop}

\* What a run of SpecErr explores.
ErrEnv ==
    [maxNorth |-> ErrMaxNorth, maxSouth |-> ErrMaxSouth,
     maxInject |-> 0, maxAdd |-> ErrMaxAdd, maxDel |-> 0,
     north |-> {"event"}, south |-> {}, seqs |-> {7},
     results |-> ErrResults,
     add |-> {UserMangler},
     inject |-> {}, keys |-> {LoginKey}, bodies |-> {TRUE}]

\* What a run of SpecLive explores.
\* A session with a mangler of the embedder that is invoked on every inbound
\* message, a manager whose ConnectedResponse carries a server key, and
\* calls of Inject with a heartbeat request and its response dropper or with
\* a ConnectedResponse that carries another server key.
BypassEnv ==
    [maxNorth |-> BypassMaxNorth, maxSouth |-> BypassMaxSouth,
     maxInject |-> BypassMaxInject, maxAdd |-> BypassMaxAdd, maxDel |-> 0,
     north |-> {"event"}, south |-> {"response"}, seqs |-> {7},
     results |-> {ManglerNoop, ManglerSuccess},
     add |-> {UserMangler},
     inject |-> {"dropResponse", "connected"},
     keys |-> {"K2"}, bodies |-> {TRUE}]

LiveEnv ==
    [maxNorth |-> LiveMaxNorth, maxSouth |-> LiveMaxSouth,
     maxInject |-> LiveMaxInject, maxAdd |-> 0, maxDel |-> 0,
     north |-> {"event", "response"},
     south |-> {}, seqs |-> {7},
     results |-> {},
     add |-> {},
     inject |-> {"dropResponse"},
     keys |-> {LoginKey}, bodies |-> {TRUE}]

\* What a run of SpecKeys explores.
KeysEnv ==
    [maxNorth |-> KeysMaxNorth, maxSouth |-> KeysMaxSouth,
     maxInject |-> 0, maxAdd |-> 0, maxDel |-> 0,
     north |-> {"event"},
     south |-> {"response"}, seqs |-> {},
     results |-> {},
     add |-> {},
     inject |-> {},
     keys |-> {LoginKey, "K1", "K2", "K3"}, bodies |-> {TRUE, FALSE}]

NoInject == [pc |-> "idle", msg |-> NoMsg, manglers |-> <<>>]

\* newSession leaves the relay lock locked; an unlocked lock has no holder.
UnlockedRelayMutex == "free"
NewSessionRelayMutex == "newSession"

\* No function is being applied by itself.
NoCall == [fn |-> "none", in |-> <<>>, out |-> <<>>, done |-> FALSE]

\* The calls of function fn with an argument of ins.
Calls(fn, ins) == [fn : {fn}, in : ins, out : {<<>>}, done : {FALSE}]

\* The state newSession leaves behind, for the run described by e, with a
\* scanner over one of the streams of ss and one of the function calls of fs
\* to be made.
InitCalls(e, ss, fs) ==
    /\ env = e
    /\ relayMutex = NewSessionRelayMutex
    /\ mangleLock = "free"
    /\ manglers = <<>>
    /\ nreg = 0
    /\ nadd = 0
    /\ ndel = 0
    /\ deleted = {}
    /\ lastSeq = 0
    /\ begun = FALSE
    /\ over = 1
    /\ nframed = [d \in Dirs |-> 0]
    /\ answered = 0
    /\ pcIn = [d \in Dirs |-> "scan"]
    /\ cur = [d \in Dirs |-> NoMsg]
    /\ visited = [d \in Dirs |-> {}]
    /\ pcOut = [d \in Dirs |-> "recv"]
    /\ out = [d \in Dirs |-> NoMsg]
    /\ inj = [j \in 1..e.maxInject |-> NoInject]
    /\ sock = [d \in Dirs |-> <<>>]
    /\ pager = [d \in Dirs |-> <<>>]
    /\ recvd = [d \in Dirs |-> <<>>]
    /\ server = NewServer
    /\ calls = [d \in Dirs |-> <<>>]
    /\ errs = [d \in Dirs |-> 0]
    /\ stream = [d \in Dirs |-> "open"]
    /\ serverKeys = <<LoginKey>>
    /\ issued = <<>>
    /\ rejected = [d \in Dirs |-> {}]
    /\ InitMessagePager
    /\ InitScanner(ss)
    /\ pure \in fs

InitStreams(e, ss) == InitCalls(e, ss, {NoCall})

InitEnv(e) == InitStreams(e, {NoStream})

Init == InitEnv(RegistryEnv)

InitRelay == InitEnv(RelayEnv)

InitLive == InitEnv(LiveEnv)

InitKeys == InitEnv(KeysEnv)

InitStealth == InitEnv(StealthEnv)

\* A negative wait group counter is a panic: the process is gone.
Running == over >= 0

\* ------------------------------------------------------- embedder's calls
\* Session.BeginRelaying: unlocks the relay lock newSession locked.
BeginRelaying ==
    /\ Running
    /\ ~begun
    /\ begun' = TRUE
    /\ relayMutex' = "free"
    /\ UNCHANGED <<pagerVars, framerVars, auxVars, rejected, issued, stream, serverKeys, env, mangleLock, manglers, nreg, nadd, ndel, deleted, lastSeq,
                   over, nframed, answered, pcIn, cur, visited, pcOut, out, inj,
                   sock, pager, recvd, calls, errs>>

\* Session.AddMangler called by the embedder.
AddMangler ==
    /\ Running
    /\ nadd < env.maxAdd
    /\ mangleLock = "free"
    /\ \E m \in env.add : manglers' = AddManglerTo(manglers, m, nreg + 1)
    /\ issued' = Append(issued, NextManglerId(manglers))
    /\ nreg' = nreg + 1
    /\ nadd' = nadd + 1
    /\ UNCHANGED <<pagerVars, framerVars, auxVars, rejected, stream, serverKeys, env, relayMutex, mangleLock, ndel, deleted, lastSeq, begun,
                   over, nframed, answered, pcIn, cur, visited, pcOut, out, inj,
                   sock, pager, recvd, calls, errs>>

\* Session.DelMangler called by the embedder.
DelMangler ==
    /\ Running
    /\ ndel < env.maxDel
    /\ mangleLock = "free"
    /\ ndel' = ndel + 1
    /\ \E id \in DOMAIN manglers :
          /\ manglers' = Remove(manglers, id)
          /\ deleted' = deleted \cup {manglers[id]}
    /\ UNCHANGED <<pagerVars, framerVars, auxVars, rejected, issued, stream, serverKeys, env, relayMutex, mangleLock, nreg, nadd, lastSeq, begun, over,
                   nframed, answered, pcIn, cur, visited, pcOut, out, inj, sock,
                   pager, recvd, calls, errs>>

\* Session.Inject is called (in a goroutine of its own).
InjectCall(j) ==
    /\ Running
    /\ inj[j].pc = "idle"
    /\ \A i \in 1..(j - 1) : inj[i].pc # "idle"
    /\ \E what \in env.inject : inj' = [inj EXCEPT ![j] = InjectInput(j, what)]
    /\ UNCHANGED <<pagerVars, framerVars, auxVars, rejected, issued, stream, serverKeys, env, relayMutex, mangleLock, manglers, nreg, nadd, ndel,
                   deleted, lastSeq, begun, over, nframed, answered, pcIn, cur,
                   visited, pcOut, out, sock, pager, recvd, calls, errs>>

\* Session.Inject: takes the relay lock and adds its manglers.
InjectLock(j) ==
    /\ Running
    /\ inj[j].pc = "lock"
    /\ relayMutex = "free"
    /\ mangleLock = "free"
    /\ relayMutex' = "Inject"
    /\ manglers' = AddAll(manglers, inj[j].manglers, nreg)
    /\ issued' = issued \o IdsOfAll(manglers, inj[j].manglers, nreg)
    /\ nreg' = nreg + Len(inj[j].manglers)
    /\ inj' = [inj EXCEPT ![j].pc = "send",
                          ![j].msg = [inj[j].msg EXCEPT !.Injected = TRUE]]
    /\ UNCHANGED <<pagerVars, framerVars, auxVars, rejected, stream, serverKeys, env, mangleLock, nadd, ndel, deleted, lastSeq, begun, over,
                   nframed, answered, pcIn, cur, visited, pcOut, out, sock,
                   pager, recvd, calls, errs>>

\* Session.Inject: the send on injectChan meets the receive of the outbound
\* half, then the relay lock is released.
InjectSend(j) ==
    LET d == inj[j].msg.direction IN
    /\ Running
    /\ inj[j].pc = "send"
    /\ pcOut[d] = "recv"
    /\ out' = [out EXCEPT ![d] = inj[j].msg]
    /\ pcOut' = [pcOut EXCEPT ![d] = "relay"]
    /\ recvd' = [recvd EXCEPT ![d] = Append(@, inj[j].msg.id)]
    /\ inj' = [inj EXCEPT ![j].pc = "done"]
    /\ relayMutex' = "free"
    /\ UNCHANGED <<pagerVars, framerVars, auxVars, rejected, issued, stream, serverKeys, env, mangleLock, manglers, nreg, nadd, ndel, deleted, lastSeq,
                   begun, over, nframed, answered, pcIn, cur, visited, sock,
                   pager, calls, errs>>

\* ------------------------------------------------------ relayInboundHalf
\* What the pager has been given after Pager.DistributeMessage(msg); it is
\* preceded by a pager that is not given injected messages.
DistributedUnlessInjected(p, msg) == IF msg.Injected THEN p ELSE Append(p, msg)
Distributed(p, msg) == Append(p, msg)

\* Scan returns false: the stream ended between two messages, in the middle
\* of one, or a read failed.  The scanner goroutine returns; nothing is
\* sent on its channel and the channel stays open.
StreamEnds == {"eof", "partial", "err"}

ScannerStop(d) ==
    /\ Running
    /\ stream[d] = "open"
    /\ \E e \in StreamEnds : stream' = [stream EXCEPT ![d] = e]
    /\ UNCHANGED <<pagerVars, framerVars, auxVars, rejected, issued, serverKeys, env, relayMutex, mangleLock, manglers, nreg,
                   nadd, ndel, deleted, lastSeq, begun, over, nframed,
                   answered, pcIn, cur, visited, pcOut, out, inj, sock, pager,
                   recvd, calls, errs>>

\* The inbound half receives a slice while the scanner goroutine, already in
\* its next Scan, gets a read error: s.Err() in the inbound half, which is
\* not ordered with that Scan, returns the error.  The slice is lost, the
\* error is reported, the session is marked over and the inbound half
\* returns.
InboundScanErr(d) ==
    /\ Running
    /\ pcIn[d] = "scan"
    /\ stream[d] = "open"
    /\ nframed[d] < MaxFramed(d)
    /\ nframed' = [nframed EXCEPT ![d] = @ + 1]
    /\ stream' = [stream EXCEPT ![d] = "err"]
    /\ errs' = [errs EXCEPT ![d] = @ + 1]
    /\ over' = over - 1
    /\ pcIn' = [pcIn EXCEPT ![d] = "done"]
    /\ UNCHANGED <<pagerVars, framerVars, auxVars, rejected, issued, serverKeys, env, relayMutex, mangleLock, manglers, nreg,
                   nadd, ndel, deleted, lastSeq, begun, answered, cur, visited,
                   pcOut, out, inj, sock, pager, recvd, calls>>

\* The tests of the result bits: mr&ManglerDone == ManglerDone and the like;
\* each is preceded by the test for equality with the flag.
IsExactlyDone(mr) == mr = ManglerDone
IsDone(mr) == (mr \cap ManglerDone) = ManglerDone
IsExactlyDrop(mr) == mr = ManglerDrop
IsDrop(mr) == (mr \cap ManglerDrop) = ManglerDrop
IsExactlyErr(mr) == mr = ManglerErr
IsErr(mr) == (mr \cap ManglerErr) = ManglerErr

\* The registry ids the range over the map may produce next: any key not yet
\* produced.  It is preceded by a range that ends after one key.
RangeOne(ms, seen) == IF seen = {} THEN DOMAIN ms ELSE {}
RangeNext(ms, seen) == DOMAIN ms \ seen

\* Session.updateSessionData for the server key history: the key of a
\* ConnectedResponse whose body parses is appended when it differs from the
\* last entry.  It is preceded by an update that appends every key.
updateSessionDataAlways(keys, m) ==
    IF m.Type = MsgTypeConnectedResponse /\ m.bodyOk
    THEN Append(keys, m.ServerKey)
    ELSE keys

updateSessionData(keys, m) ==
    IF m.Type = MsgTypeConnectedResponse /\ m.bodyOk
       /\ keys[Len(keys)] # m.ServerKey
    THEN Append(keys, m.ServerKey)
    ELSE keys

\* The errors updateSessionData returns.
updateSessionDataErrs(m) ==
    IF m.Type = MsgTypeConnectedResponse /\ ~m.bodyOk THEN 1 ELSE 0

\* ReadMsg returns an error for the slice.  It is preceded by a ReadMsg that
\* never does.
ReadMsgNeverFails(m) == FALSE
ReadMsgFails(m) == ~m.parses

\* o.mangleLock.Lock() of the inbound half: the registry lock is held by the
\* half of direction d.  It is preceded by a half that runs its mangler loop
\* without the lock.
mangleLockSkipped(d) == "free"
mangleLockLock(d) == d

\* The inbound half gets the next framed slice from the scanner, takes the
\* relay lock and parses the slice with ReadMsg.  A slice that does not parse
\* is reported and the lock released; otherwise the registry lock is taken
\* for the mangler loop, which is over at once when the registry is empty.
InboundRead(d) ==
    /\ Running
    /\ pcIn[d] = "scan"
    /\ nframed[d] < MaxFramed(d)
    /\ stream[d] = "open"
    /\ relayMutex = "free"
    /\ mangleLock = "free"
    /\ nframed' = [nframed EXCEPT ![d] = @ + 1]
    /\ \E m \in (IF d = Northbound THEN NorthboundNext ELSE SouthboundNext) :
          /\ answered' = IF m.re # NoId THEN answered + 1 ELSE answered
          /\ rejected' = IF m.parses THEN rejected
                         ELSE [rejected EXCEPT ![d] = @ \cup {m.id}]
          /\ serverKeys' = IF ReadMsgFails(m) THEN serverKeys
                           ELSE updateSessionData(serverKeys, m)
          /\ IF ReadMsgFails(m)
             THEN /\ errs' = [errs EXCEPT ![d] = @ + 1]
                  /\ UNCHANGED <<relayMutex, mangleLock, cur, pcIn>>
             ELSE /\ relayMutex' = d
                  /\ cur' = [cur EXCEPT ![d] = m]
                  /\ IF RangeNext(manglers, {}) = {}
                     THEN /\ pcIn' = [pcIn EXCEPT ![d] = "send"]
                          /\ UNCHANGED mangleLock
                     ELSE /\ pcIn' = [pcIn EXCEPT ![d] = "mangle"]
                          /\ mangleLock' = mangleLockLock(d)
                  /\ errs' = [errs EXCEPT ![d] = @ + updateSessionDataErrs(m)]
    /\ UNCHANGED <<pagerVars, framerVars, auxVars, issued, stream, env, manglers, nreg, nadd, ndel, deleted, lastSeq, begun, over, visited,
                   pcOut, out, inj, sock, pager, recvd, calls>>

\* The inbound half sees that the session is over and returns.
InboundOver(d) ==
    /\ Running
    /\ pcIn[d] = "scan"
    /\ over = 0
    /\ pcIn' = [pcIn EXCEPT ![d] = "done"]
    /\ UNCHANGED <<pagerVars, framerVars, auxVars, rejected, issued, stream, serverKeys, env, relayMutex, mangleLock, manglers, nreg, nadd, ndel, deleted, lastSeq,
                   begun, over, nframed, answered, cur, visited, pcOut, out,
                   inj, sock, pager, recvd, calls, errs>>

\* One iteration of the mangler loop: Mangle is invoked, a mangler that is
\* Done is deleted, a message that is dropped goes to the pager when both
\* locks are released; after the last iteration the registry lock is released
\* and the inbound half goes on to send the message on xmitChan.
InboundMangle(d) ==
    /\ Running
    /\ pcIn[d] = "mangle"
    /\ \E i \in RangeNext(manglers, visited[d]) :
       \E r \in Mangle(manglers[i], cur[d]) :
          LET m == manglers[i]
              kept == IF IsDone(r.mr)
                      THEN Remove(manglers, i)
                      ELSE [manglers EXCEPT ![i] = r.m]
              seen == visited[d] \cup {i}
          IN
          /\ calls' = [calls EXCEPT ![d] =
                          Append(@, [msg |-> cur[d].id, typ |-> cur[d].Type,
                                     EventType |-> cur[d].EventType,
                                     Points |-> cur[d].Points,
                                     id |-> i, m |-> m, mr |-> r.mr,
                                     n |-> Len(calls[Northbound])
                                           + Len(calls[Southbound]) + 1])]
          /\ errs' = [errs EXCEPT ![d] =
                          IF IsErr(r.mr) THEN @ + 1 ELSE @]
          /\ manglers' = kept
          /\ inj' = inj \o EventAcks(m, cur[d], r.mr, Len(inj) + 1)
          /\ IF IsDrop(r.mr)
             THEN /\ pager' = [pager EXCEPT ![d] =
                                  Distributed(@, [cur[d] EXCEPT !.Dropped = TRUE])]
                  /\ cur' = [cur EXCEPT ![d] = NoMsg]
                  /\ visited' = [visited EXCEPT ![d] = {}]
                  /\ mangleLock' = "free"
                  /\ relayMutex' = "free"
                  /\ pcIn' = [pcIn EXCEPT ![d] = "scan"]
             ELSE IF RangeNext(kept, seen) = {}
             THEN /\ visited' = [visited EXCEPT ![d] = {}]
                  /\ mangleLock' = "free"
                  /\ pcIn' = [pcIn EXCEPT ![d] = "send"]
                  /\ UNCHANGED <<cur, relayMutex, pager>>
             ELSE /\ visited' = [visited EXCEPT ![d] = seen]
                  /\ UNCHANGED <<cur, mangleLock, relayMutex, pcIn, pager>>
    /\ UNCHANGED <<pagerVars, framerVars, auxVars, rejected, issued, stream, serverKeys, env, nreg, nadd, ndel, deleted, lastSeq, begun, over, nframed, answered,
                   pcOut, out, sock, recvd>>

\* The send on xmitChan meets the receive of the outbound half, then the
\* inbound half releases the relay lock.
Xmit(d) ==
    /\ Running
    /\ pcIn[d] = "send"
    /\ pcOut[d] = "recv"
    /\ out' = [out EXCEPT ![d] = cur[d]]
    /\ recvd' = [recvd EXCEPT ![d] = Append(@, cur[d].id)]
    /\ cur' = [cur EXCEPT ![d] = NoMsg]
    /\ pcOut' = [pcOut EXCEPT ![d] = "relay"]
    /\ pcIn' = [pcIn EXCEPT ![d] = "scan"]
    /\ relayMutex' = "free"
    /\ UNCHANGED <<pagerVars, framerVars, auxVars, rejected, issued, stream, serverKeys, env, mangleLock, manglers, nreg, nadd, ndel, deleted, lastSeq, begun, over,
                   nframed, answered, visited, inj, sock, pager, calls, errs>>

\* ----------------------------------------------------- relayOutboundHalf
\* The outbound half sees that the session is over and returns.
OutboundOver(d) ==
    /\ Running
    /\ pcOut[d] = "recv"
    /\ over = 0
    /\ pcOut' = [pcOut EXCEPT ![d] = "done"]
    /\ UNCHANGED <<pagerVars, framerVars, auxVars, rejected, issued, stream, serverKeys, env, relayMutex, mangleLock, manglers, nreg, nadd, ndel, deleted, lastSeq,
                   begun, over, nframed, answered, pcIn, cur, visited, out, inj,
                   sock, pager, recvd, calls, errs>>

\* Message.Marshal, the fallback to origBytes and impersonate: what the
\* outbound half writes for the message.
Payload(msg) ==
    IF msg.marshalOk
    THEN [id |-> msg.id, Request |-> msg.Request, Type |-> msg.Type,
          seq |-> msg.seq, re |-> msg.re, Injected |-> msg.Injected,
          EventID |-> msg.EventID, wrote |-> "impersonated"]
    ELSE IF msg.hasOrig
    THEN [id |-> msg.id, Request |-> msg.Request, Type |-> msg.Type,
          seq |-> msg.origSeq, re |-> msg.re, Injected |-> msg.Injected,
          EventID |-> msg.EventID, wrote |-> "origBytes"]
    ELSE [id |-> msg.id, Request |-> msg.Request, Type |-> msg.Type,
          seq |-> NoSeq, re |-> msg.re, Injected |-> msg.Injected,
          EventID |-> msg.EventID, wrote |-> "empty"]

\* The socket after a write, which adds at the end; it is preceded by a
\* write that adds at the front.
WrittenInFront(s, msg) == <<Payload(msg)>> \o s
Written(s, msg) == Append(s, Payload(msg))

\* The sequence mangler's outcome for the message the outbound half holds.
Sequenced(d) ==
    IF d = Southbound /\ out[d].Request
    THEN seqMangle(out[d], lastSeq)
    ELSE [msg |-> out[d], lastSeq |-> lastSeq, mr |-> ManglerNoop]

\* The errors the outbound half reports before the write.
RelayErrs(r) ==
    (IF IsErr(r.mr) THEN 1 ELSE 0)
    + (IF r.msg.marshalOk THEN 0 ELSE IF r.msg.hasOrig THEN 1 ELSE 2)

\* The outbound half relays the message it received: the sequence mangler
\* runs on southbound requests, the message goes to the pager, is
\* marshalled, impersonated and written to the socket.
OutboundRelay(d) ==
    /\ Running
    /\ pcOut[d] = "relay"
    /\ LET r == Sequenced(d)
       IN /\ lastSeq' = r.lastSeq
          /\ pager' = [pager EXCEPT ![d] = Distributed(@, r.msg)]
          /\ sock' = [sock EXCEPT ![d] = Written(@, r.msg)]
          /\ errs' = [errs EXCEPT ![d] = @ + RelayErrs(r)]
    /\ out' = [out EXCEPT ![d] = NoMsg]
    /\ pcOut' = [pcOut EXCEPT ![d] = "recv"]
    /\ UNCHANGED <<pagerVars, framerVars, auxVars, rejected, issued, stream, serverKeys, env, relayMutex, mangleLock, manglers, nreg, nadd, ndel, deleted, begun,
                   over, nframed, answered, pcIn, cur, visited, inj, recvd,
                   calls>>

\* The same, but the write fails: the error is reported, the session is
\* marked over and the outbound half returns.
OutboundWriteFail(d) ==
    /\ Running
    /\ pcOut[d] = "relay"
    /\ LET r == Sequenced(d)
       IN /\ lastSeq' = r.lastSeq
          /\ pager' = [pager EXCEPT ![d] = Distributed(@, r.msg)]
          /\ errs' = [errs EXCEPT ![d] = @ + RelayErrs(r) + 1]
    /\ over' = over - 1
    /\ out' = [out EXCEPT ![d] = NoMsg]
    /\ pcOut' = [pcOut EXCEPT ![d] = "done"]
    /\ UNCHANGED <<pagerVars, framerVars, auxVars, rejected, issued, stream, serverKeys, env, relayMutex, mangleLock, manglers, nreg, nadd, ndel, deleted, begun,
                   nframed, answered, pcIn, cur, visited, inj, sock, recvd,
                   calls>>

\* ------------------------------------------------------- specification
Next ==
    \/ BeginRelaying
    \/ AddMangler
    \/ DelMangler
    \/ \E j \in DOMAIN inj : InjectCall(j)
    \/ \E j \in DOMAIN inj : InjectLock(j)
    \/ \E j \in DOMAIN inj : InjectSend(j)
    \/ \E d \in Dirs : InboundRead(d)
    \/ \E d \in Dirs : InboundOver(d)
    \/ \E d \in Dirs : InboundMangle(d)
    \/ \E d \in Dirs : Xmit(d)
    \/ \E d \in Dirs : OutboundOver(d)
    \/ \E d \in Dirs : OutboundRelay(d)
    \/ \E d \in Dirs : OutboundWriteFail(d)

Spec == Init /\ [][Next]_vars

\* The relays without calls of AddMangler and DelMangler by the embedder.
NextRelay ==
    \/ BeginRelaying
    \/ \E j \in DOMAIN inj : InjectCall(j)
    \/ \E j \in DOMAIN inj : InjectLock(j)
    \/ \E j \in DOMAIN inj : InjectSend(j)
    \/ \E d \in Dirs : InboundRead(d)
    \/ \E d \in Dirs : InboundOver(d)
    \/ \E d \in Dirs : InboundMangle(d)
    \/ \E d \in Dirs : Xmit(d)
    \/ \E d \in Dirs : OutboundOver(d)
    \/ \E d \in Dirs : OutboundRelay(d)
    \/ \E d \in Dirs : OutboundWriteFail(d)

SpecRelay == InitRelay /\ [][NextRelay]_vars

\* The relays with one call of SetLockStatus(Unlocked, true), without
\* write errors.
NextStealth ==
    \/ BeginRelaying
    \/ \E j \in DOMAIN inj : InjectCall(j)
    \/ \E j \in DOMAIN inj : InjectLock(j)
    \/ \E j \in DOMAIN inj : InjectSend(j)
    \/ \E d \in Dirs : InboundRead(d)
    \/ \E d \in Dirs : InboundMangle(d)
    \/ \E d \in Dirs : Xmit(d)
    \/ \E d \in Dirs : OutboundRelay(d)

SpecStealth == InitStealth /\ [][NextStealth]_vars

\* The relays with DropEidcEvent registered by the embedder and a manager
\* that acknowledges the events it gets, without write errors.
InitSuppress == InitEnv(SuppressEnv)

NextSuppress ==
    \/ BeginRelaying
    \/ AddMangler
    \/ \E j \in DOMAIN inj : InjectLock(j)
    \/ \E j \in DOMAIN inj : InjectSend(j)
    \/ \E d \in Dirs : InboundRead(d)
    \/ \E d \in Dirs : InboundMangle(d)
    \/ \E d \in Dirs : Xmit(d)
    \/ \E d \in Dirs : OutboundRelay(d)

SpecSuppress == InitSuppress /\ [][NextSuppress]_vars

\* The relays with manglers of the embedder that report errors.
InitErr == InitEnv(ErrEnv)

NextErr ==
    \/ BeginRelaying
    \/ AddMangler
    \/ \E d \in Dirs : InboundRead(d)
    \/ \E d \in Dirs : InboundMangle(d)
    \/ \E d \in Dirs : Xmit(d)
    \/ \E d \in Dirs : OutboundRelay(d)

SpecErr == InitErr /\ [][NextErr]_vars

\* The relays with calls of Inject and a mangler of the embedder, without
\* write errors.
InitBypass == InitEnv(BypassEnv)

NextBypass ==
    \/ BeginRelaying
    \/ AddMangler
    \/ \E j \in DOMAIN inj : InjectCall(j)
    \/ \E j \in DOMAIN inj : InjectLock(j)
    \/ \E j \in DOMAIN inj : InjectSend(j)
    \/ \E d \in Dirs : InboundRead(d)
    \/ \E d \in Dirs : InboundMangle(d)
    \/ \E d \in Dirs : Xmit(d)
    \/ \E d \in Dirs : OutboundRelay(d)

SpecBypass == InitBypass /\ [][NextBypass]_vars

\* The relays without manglers and injection.
NextKeys ==
    \/ BeginRelaying
    \/ \E d \in Dirs : InboundRead(d)
    \/ \E d \in Dirs : InboundOver(d)
    \/ \E d \in Dirs : Xmit(d)
    \/ \E d \in Dirs : OutboundOver(d)
    \/ \E d \in Dirs : OutboundRelay(d)
    \/ \E d \in Dirs : OutboundWriteFail(d)

SpecKeys == InitKeys /\ [][NextKeys]_vars

\* The message pager by itself: subscribers come and go while messages are
\* distributed.  In SpecPagerLive a call of DistributeMessage that can take a
\* step takes it.
InitPager == InitEnv(PagerEnv)

InitPagerLive == InitEnv(PagerLiveEnv)

NextPager ==
    \/ Subscribe
    \/ \E c \in 1..MaxSubs : UnsubscribeRemove(c)
    \/ \E c \in 1..MaxSubs : UnsubscribeClose(c)
    \/ \E c \in 1..MaxSubs : SubscriberReceive(c)
    \/ \E msg \in PagerMessages : DistributeBegin(msg)
    \/ DistributeCats
    \/ DistributeTypes

SpecPager == InitPager /\ [][NextPager]_vars

SpecPagerLive ==
    /\ InitPagerLive
    /\ [][NextPager]_vars
    /\ WF_vars(DistributeCats)
    /\ WF_vars(DistributeTypes)

\* The scanner of one direction by itself, over every stream of up to MaxMsgs
\* messages, cut anywhere and read in chunks of any size.
InitFramer == InitStreams(IdleEnv, Streams)

NextFramer == ScanRead \/ ScanEOF \/ ScanToken \/ ScanMore \/ ScanStop \/ ScanFail

SpecFramer == InitFramer /\ [][NextFramer]_vars

\* impersonate by itself, over every message of ImpersonateInputs.
InitImpersonate == InitCalls(IdleEnv, {NoStream}, Calls("impersonate", ImpersonateInputs))

NextImpersonate == Impersonate

SpecImpersonate == InitImpersonate /\ [][NextImpersonate]_vars

\* The outbound half's rendering of one message, over every message of
\* WriteInputs.
InitWrite == InitCalls(IdleEnv, {NoStream}, Calls("write", WriteInputs))

NextWrite == Write

SpecWrite == InitWrite /\ [][NextWrite]_vars

\* canonicalizeHost by itself, over every host of Hosts.
InitCanonicalizeHost ==
    InitCalls(IdleEnv, {NoStream}, Calls("canonicalizeHost", Hosts))

NextCanonicalizeHost == CanonicalizeHost

SpecCanonicalizeHost == InitCanonicalizeHost /\ [][NextCanonicalizeHost]_vars

\* getSouthboundRequestType by itself, over every request of TypedRequests.
InitTyper ==
    InitCalls(IdleEnv, {NoStream}, Calls("getSouthboundRequestType", TypedRequests))

NextTyper == GetSouthboundRequestType

SpecTyper == InitTyper /\ [][NextTyper]_vars

\* The Server by itself.  The goroutines of the program take the steps
\* they can take; whether anybody receives from the error channel or from
\* a session channel, and what Accept returns while the listener is open,
\* is up to the embedder and the peers.
NextServer ==
    \/ Serve
    \/ Stop
    \/ StopCloseListener
    \/ StopCloseStop
    \/ StopCloseErr
    \/ StopAgain
    \/ AcceptConn
    \/ AcceptError
    \/ AcceptClosed
    \/ ServeSendErr
    \/ ServeSendPanics
    \/ UnsubLock
    \/ UnsubClose
    \/ SubscribeSessions
    \/ \E c \in 1..MaxSessSubs : UnSubscribeSessions(c)
    \/ \E k \in 1..MaxConns : k \in DOMAIN server.announce /\ AnnounceNew(k)
    \/ \E k \in 1..MaxConns : k \in DOMAIN server.announce /\ AnnounceFail(k)
    \/ \E k \in 1..MaxConns : k \in DOMAIN server.announce /\ AnnounceSendErr(k)
    \/ \E k \in 1..MaxConns : k \in DOMAIN server.announce /\ AnnounceSendPanics(k)
    \/ \E k \in 1..MaxConns : k \in DOMAIN server.announce /\ AnnounceLock(k)
    \/ \E k \in 1..MaxConns, c \in 1..MaxSessSubs :
          k \in DOMAIN server.announce /\ AnnounceSend(k, c)
    \/ \E k \in 1..MaxConns : k \in DOMAIN server.announce /\ AnnounceUnlock(k)

FairServer ==
    /\ WF_vars(StopCloseListener)
    /\ WF_vars(StopCloseStop)
    /\ WF_vars(StopCloseErr)
    /\ WF_vars(AcceptClosed)
    /\ WF_vars(ServeSendPanics)
    /\ WF_vars(UnsubLock)
    /\ WF_vars(UnsubClose)
    /\ \A k \in 1..MaxConns :
          /\ WF_vars(k \in DOMAIN server.announce /\ AnnounceNew(k))
          /\ WF_vars(k \in DOMAIN server.announce /\ AnnounceSendPanics(k))
          /\ WF_vars(k \in DOMAIN server.announce /\ AnnounceLock(k))
          /\ WF_vars(k \in DOMAIN server.announce /\ AnnounceUnlock(k))

InitServer == InitEnv(IdleEnv)

SpecServer == InitServer /\ [][NextServer]_vars /\ FairServer

\* The relays with streams that end.  Each goroutine that can take a step
\* eventually takes it; what the peers and the embedder do is up to them.
NextLive ==
    \/ BeginRelaying
    \/ \E j \in DOMAIN inj : InjectCall(j)
    \/ \E j \in DOMAIN inj : InjectLock(j)
    \/ \E j \in DOMAIN inj : InjectSend(j)
    \/ \E d \in Dirs : ScannerStop(d)
    \/ \E d \in Dirs : InboundScanErr(d)
    \/ \E d \in Dirs : InboundRead(d)
    \/ \E d \in Dirs : InboundOver(d)
    \/ \E d \in Dirs : InboundMangle(d)
    \/ \E d \in Dirs : Xmit(d)
    \/ \E d \in Dirs : OutboundOver(d)
    \/ \E d \in Dirs : OutboundRelay(d)
    \/ \E d \in Dirs : OutboundWriteFail(d)

FairLive ==
    /\ WF_vars(\E j \in 1..LiveMaxInject : InjectLock(j))
    /\ WF_vars(\E j \in 1..LiveMaxInject : InjectSend(j))
    /\ \A d \in Dirs :
          /\ WF_vars(InboundOver(d))
          /\ WF_vars(InboundMangle(d))
          /\ WF_vars(Xmit(d))
          /\ WF_vars(OutboundOver(d))
          /\ WF_vars(OutboundRelay(d) \/ OutboundWriteFail(d))

SpecLive == InitLive /\ [][NextLive]_vars /\ FairLive

\* ----------------------------------------------------------- properties
\* The southbound requests written to the controller whose URL carries an
\* integer seq parameter, in emission order.
SequencedRequests ==
    SelectSeq(sock[Southbound],
              LAMBDA e : e.Request /\ e.wrote # "empty" /\ e.seq \notin {NoSeq, BadSeq})

\* C1: the k-th southbound request written to the controller with an integer
\* seq parameter is written with seq = k, whatever seq it arrived with and
\* however injected and relayed requests interleave.
C1_SequenceInvariant ==
    \A k \in 1..Len(SequencedRequests) : SequencedRequests[k].seq = k

Range(s) == {s[i] : i \in DOMAIN s}

\* The ids of the messages in a sequence of messages or of payloads.
Ids(s) == {s[i].id : i \in DOMAIN s}

\* The names of the manglers in the registry.
Registered == {manglers[i].uid : i \in DOMAIN manglers}

\* C2: when a mangler returns a result with the Drop flag for a message, no
\* further mangler is invoked on that message, the message is neither put on
\* the queue between the halves nor written to the socket, and it is given to
\* the pager with Dropped set.
C2_DropSemantics ==
    \A d \in Dirs : \A k \in DOMAIN calls[d] :
        ManglerDrop \subseteq calls[d][k].mr =>
            /\ \A j \in DOMAIN calls[d] :
                   j > k => calls[d][j].msg # calls[d][k].msg
            /\ calls[d][k].msg \notin Range(recvd[d])
            /\ calls[d][k].msg \notin Ids(sock[d])
            /\ calls[d][k].msg # out[d].id
            /\ calls[d][k].msg # cur[d].id
            /\ \E p \in DOMAIN pager[d] :
                   pager[d][p].id = calls[d][k].msg /\ pager[d][p].Dropped

\* A mangler returned Drop together with Done while a mangler registered
\* before the relays began was still waiting for the message, and the relay
\* went on to forward a later message.
C2_Witness ==
    \E d \in Dirs : \E k \in DOMAIN calls[d] :
        /\ calls[d][k].mr = ManglerDrop \cup ManglerDone
        /\ \E i \in DOMAIN manglers :
              /\ manglers[i].prewire
              /\ \A j \in DOMAIN calls[d] :
                     calls[d][j].msg = calls[d][k].msg
                         => calls[d][j].m.uid # manglers[i].uid
        /\ \E e \in Range(sock[d]) : e.id[2] > calls[d][k].msg[2]

\* C3: the manglers are invoked on a message in ascending order of their
\* registry ids, the order in which they were registered.
C3_TransformerOrder ==
    \A d \in Dirs : \A j, k \in DOMAIN calls[d] :
        (j < k /\ calls[d][j].msg = calls[d][k].msg)
            => calls[d][j].id < calls[d][k].id

\* All the invocations of Mangle so far, of both directions.
AllCalls == Range(calls[Northbound]) \cup Range(calls[Southbound])

\* The manglers that have returned a result with the Done flag.
Retired == {c.m.uid : c \in {x \in AllCalls : ManglerDone \subseteq x.mr}}

\* The manglers removed with DelMangler.
Deleted == {m.uid : m \in deleted}

\* The invocations of the inbound half of direction d on message id.
CallsOn(d, id) == {c \in Range(calls[d]) : c.msg = id}

\* C4: a mangler that returns a result with the Done flag, alone or with
\* Drop, is out of the registry with that invocation and is not invoked
\* again in either direction; a mangler that has not returned Done and was
\* not removed with DelMangler is in the registry, and once invoked it is
\* invoked on every later message whose mangler loop runs to its end.
C4_Lifecycle ==
    /\ [](/\ Retired \cap Registered = {}
          /\ \A u \in 1..nreg :
                 (u \notin Retired /\ u \notin Deleted) => u \in Registered
          /\ \A d \in Dirs :
                 pcIn[d] = "send" =>
                    \A i \in DOMAIN manglers :
                        (\E c \in AllCalls :
                            c.m.uid = manglers[i].uid /\ c.msg # cur[d].id)
                        => \E c \in CallsOn(d, cur[d].id) :
                              c.m.uid = manglers[i].uid)
    /\ [][\A d \in Dirs :
             \A k \in DOMAIN calls'[d] :
                 k > Len(calls[d]) => calls'[d][k].m.uid \notin Retired]_vars

\* One mangler returned Done together with Drop on the first message and is
\* gone, another returned neither and was invoked on both messages.
C4_Witness ==
    /\ \E c \in AllCalls :
          c.mr = ManglerDrop \cup ManglerDone /\ c.m.uid \notin Registered
    /\ \E i \in DOMAIN manglers :
          \E c1, c2 \in AllCalls :
              /\ c1.m.uid = manglers[i].uid
              /\ c2.m.uid = manglers[i].uid
              /\ c1.msg # c2.msg

\* C5: once a DropMessageByType mangler with Remaining >= 1 is registered,
\* each message of its type that reaches it is dropped, not put on the queue
\* between the halves, and the mangler leaves the registry with the message
\* that brings Remaining to zero.
C5_DropByTypeCount ==
    \A d \in Dirs : \A c \in Range(calls[d]) :
        (c.m.kind = "DropMessageByType" /\ c.typ = c.m.msgType
         /\ c.m.Remaining >= 1)
            => /\ c.msg \notin Range(recvd[d])
               /\ \E p \in DOMAIN pager[d] :
                      pager[d][p].id = c.msg /\ pager[d][p].Dropped
               /\ c.m.Remaining = 1 => c.m.uid \notin Registered

\* The reply to an injected request that came with a mangler for its reply.
IsInjectedReply(e) ==
    \E j \in DOMAIN inj :
        /\ inj[j].manglers # <<>>
        /\ inj[j].pc # "idle"
        /\ e.re = inj[j].msg.id

\* C6: the response of the controller to a request injected together with
\* the mangler that drops responses of its type is given to the pager with
\* Dropped set and is not written to the manager's socket.
C6_InjectedResponseDropped ==
    /\ \A e \in Range(sock[Northbound]) : ~IsInjectedReply(e)
    /\ \A e \in Range(pager[Northbound]) : IsInjectedReply(e) => e.Dropped

\* C7: until BeginRelaying is called no message is passed to a mangler,
\* given to the pager, received by an outbound half or written to a socket,
\* injected messages included.
C7_StartLocked ==
    ~begun =>
        \A d \in Dirs :
            /\ calls[d] = <<>>
            /\ pager[d] = <<>>
            /\ recvd[d] = <<>>
            /\ sock[d] = <<>>
            /\ nframed[d] = 0

\* BeginRelaying has not been called, a mangler is registered and a call of
\* Inject is waiting for the relay lock.
C7_Witness ==
    /\ ~begun
    /\ manglers # <<>>
    /\ \E j \in DOMAIN inj : inj[j].pc = "lock"

\* The manglers added before BeginRelaying, and those of them not removed
\* with DelMangler.
Prewire ==
    {m.uid : m \in {x \in Range(manglers) \cup deleted : x.prewire}}
    \cup {c.m.uid : c \in {x \in AllCalls : x.m.prewire}}

PrewireKept == Prewire \ Deleted

\* The first message passed to a mangler, once its mangler loop is over.
IsFirstMessage(d, id) ==
    /\ \E c \in CallsOn(d, id) : c.n = 1
    /\ ~(pcIn[d] = "mangle" /\ cur[d].id = id)

Invoked(u, d, id) == \E c \in CallsOn(d, id) : c.m.uid = u

\* C8: every mangler added before BeginRelaying and not removed with
\* DelMangler is invoked on the first message passed to the manglers, unless
\* a mangler invoked on that message before it returned Drop.
C8_PreWire ==
    \A d \in Dirs : \A id \in {c.msg : c \in Range(calls[d])} :
        IsFirstMessage(d, id) =>
            \A u \in PrewireKept :
                \/ Invoked(u, d, id)
                \/ \E c \in CallsOn(d, id) : ManglerDrop \subseteq c.mr

\* Two manglers were added before BeginRelaying and both were invoked on the
\* first message, which was then forwarded.
C8_Witness ==
    \E d \in Dirs : \E id \in Range(recvd[d]) :
        /\ IsFirstMessage(d, id)
        /\ Cardinality(PrewireKept) >= 2
        /\ \A u \in PrewireKept : Invoked(u, d, id)

\* C8 as it was stated: every mangler added before BeginRelaying is invoked
\* on the first message passed to the manglers.
C8_PreWireAsStated ==
    \A d \in Dirs : \A id \in {c.msg : c \in Range(calls[d])} :
        IsFirstMessage(d, id) => \A u \in Prewire : Invoked(u, d, id)

\* The messages of a sequence that were framed in direction d come in the
\* order they were framed.
InFramingOrder(d, s) ==
    \A j, k \in DOMAIN s :
        (j < k /\ s[j].id[1] = d /\ s[k].id[1] = d) => s[j].id[2] < s[k].id[2]

\* C9: in each direction the messages written to the socket that were read
\* from the inbound socket are written in the order they were framed, and
\* every message, injected ones included, is written at the position at
\* which the outbound half received it.
C9_SocketOrder ==
    \A d \in Dirs :
        /\ InFramingOrder(d, sock[d])
        /\ Len(sock[d]) <= Len(recvd[d])
        /\ \A k \in DOMAIN sock[d] : sock[d][k].id = recvd[d][k]

\* An injected request was written to the controller between two requests
\* of the manager, and the controller's second message was left out of what
\* was written to the manager.
C9_Witness ==
    /\ Len(sock[Southbound]) = 3
    /\ sock[Southbound][1].id[1] = Southbound
    /\ sock[Southbound][2].Injected
    /\ sock[Southbound][3].id[1] = Southbound
    /\ Len(sock[Northbound]) = 2
    /\ sock[Northbound][2].id = <<Northbound, 3>>

\* C10: in each direction the messages framed in that direction are given to
\* the pager in the order they were framed, dropped and forwarded alike.
C10_PagerOrder ==
    \A d \in Dirs : InFramingOrder(d, pager[d])

\* The messages a session of SpecLive can hold.
LiveIds ==
    {<<Northbound, k>> : k \in 1..LiveMaxNorth}
    \cup {<<Southbound, k>> : k \in 1..LiveMaxSouth}
    \cup {<<"Inject", j>> : j \in 1..LiveMaxInject}

\* ReadMsg has parsed the message, or it was passed to Inject.
Accepted(id) ==
    \/ \E d \in Dirs : cur[d].id = id \/ out[d].id = id
    \/ \E j \in DOMAIN inj : inj[j].pc # "idle" /\ inj[j].msg.id = id

Paged(id) == \E d \in Dirs : id \in Ids(pager[d])

\* C11: while the session is relaying and not over, a message that ReadMsg
\* parsed or that was passed to Inject is given to the pager, and at most
\* once, with Dropped set exactly when a mangler returned Drop for it and
\* Injected set exactly when it came through Inject.
C11_Publication ==
    /\ [](\A d \in Dirs :
            /\ \A j, k \in DOMAIN pager[d] :
                   pager[d][j].id = pager[d][k].id => j = k
            /\ \A e \in Range(pager[d]) :
                   /\ e.Injected <=> e.id[1] = "Inject"
                   /\ e.Dropped <=>
                         \E c \in CallsOn(d, e.id) : ManglerDrop \subseteq c.mr
                   /\ e.direction = d)
    /\ \A id \in LiveIds :
          (Accepted(id) /\ begun /\ over > 0) ~> (Paged(id) \/ over <= 0)

\* The pager was given a message relayed from the controller, the injected
\* request and the dropped response to it.
C11_Witness ==
    /\ over > 0
    /\ <<"Inject", 1>> \in Ids(pager[Southbound])
    /\ \E e \in Range(pager[Northbound]) : e.Dropped
    /\ \E e \in Range(pager[Northbound]) : ~e.Dropped

\* The step in which the inbound half of direction d parses a
\* ConnectedResponse whose body holds a server key.
ObservesKey(d) ==
    /\ pcIn[d] = "scan"
    /\ pcIn'[d] \in {"mangle", "send"}
    /\ cur'[d].Type = MsgTypeConnectedResponse
    /\ cur'[d].bodyOk

\* C12: the server key history starts with the key of the login request;
\* a ConnectedResponse with key K appends K exactly when K differs from the
\* last entry, nothing else changes the history, and no two adjacent
\* entries are equal.
C12_ServerKeyHistory ==
    /\ [](/\ serverKeys[1] = LoginKey
          /\ \A i \in 1..(Len(serverKeys) - 1) :
                 serverKeys[i] # serverKeys[i + 1])
    /\ [][\/ \E d \in Dirs :
               /\ ObservesKey(d)
               /\ serverKeys' =
                      IF cur'[d].ServerKey # serverKeys[Len(serverKeys)]
                      THEN Append(serverKeys, cur'[d].ServerKey)
                      ELSE serverKeys
          \/ /\ \A d \in Dirs : ~ObservesKey(d)
             /\ serverKeys' = serverKeys]_vars

\* ConnectedResponses with keys K1, K2, K2, K3 were relayed and the history
\* is K0, K1, K2, K3.
C12_Witness ==
    /\ Len(pager[Southbound]) = 4
    /\ [i \in 1..4 |-> pager[Southbound][i].ServerKey] = <<"K1", "K2", "K2", "K3">>
    /\ \A i \in 1..4 : pager[Southbound][i].bodyOk
    /\ serverKeys = <<LoginKey, "K1", "K2", "K3">>

\* The termination latch has fired: the wait group counter is down to zero.
Terminated == over <= 0

\* C13: when a read from either socket fails or meets the end of the stream,
\* the termination latch eventually fires.
C13_IOErrorsEndSession ==
    \A d \in Dirs : (stream[d] \in {"eof", "err"}) ~> Terminated

\* C14: once the termination latch has fired, the inbound and the outbound
\* half of both directions eventually return.
C14_HalvesReturn ==
    (over = 0) ~> (\/ \A d \in Dirs : pcIn[d] = "done" /\ pcOut[d] = "done"
                   \/ over < 0)

\* The atomic category of a message: its direction with request or response.
AtomicCategory(msg) ==
    <<msg.direction, IF msg.Response THEN "response" ELSE "request">>

\* The atomic categories a category stands for.
Expansion(cat) ==
    LET dirs == CASE cat \in {SubMsgCatAnyNB, SubMsgCatAnyNBReq, SubMsgCatAnyNBResp}
                       -> {Northbound}
                  [] cat \in {SubMsgCatAnySB, SubMsgCatAnySBReq, SubMsgCatAnySBResp}
                       -> {Southbound}
                  [] OTHER -> Dirs
        kinds == CASE cat \in {SubMsgCatAnyReq, SubMsgCatAnyNBReq, SubMsgCatAnySBReq}
                        -> {"request"}
                   [] cat \in {SubMsgCatAnyResp, SubMsgCatAnyNBResp, SubMsgCatAnySBResp}
                        -> {"response"}
                   [] OTHER -> {"request", "response"}
    IN dirs \X kinds

\* A subscription matches a message.
Matches(info, msg) ==
    IF Len(info.MsgTypes) > 0
    THEN \E i \in DOMAIN info.MsgTypes : info.MsgTypes[i] = msg.Type
    ELSE AtomicCategory(msg) \in Expansion(info.Category)

\* The sends of call n of DistributeMessage.
OffersOf(n) == {i \in DOMAIN offers : offers[i].n = n}

\* The registered subscribers whose subscription matches a message.
Matching(msg) ==
    {c \in 1..MaxSubs : chans[c].sub = "yes" /\ Matches(chans[c].info, msg)}

\* The step in which a call of DistributeMessage returns.
DistributeReturns == dist.pc = "types" /\ dist'.pc = "idle"

\* C15: a call of DistributeMessage offers its message to exactly the
\* registered subscribers that match it, by message type when the
\* subscriber gave message types and by the expansion of its category
\* otherwise, and to each of them once.
C15_PagerMatching ==
    [][DistributeReturns =>
          /\ {offers[i].c : i \in OffersOf(dist.n)} = Matching(dist.msg)
          /\ \A i, j \in OffersOf(dist.n) : offers[i].c = offers[j].c => i = j]_vars

\* One call has offered its message to a subscriber by type whose category
\* does not hold the message, and to a subscriber of a compound category.
C15_Witness ==
    /\ dist.pc = "idle"
    /\ \E i, j \in OffersOf(1) :
          /\ Len(chans[offers[i].c].info.MsgTypes) > 0
          /\ AtomicCategory(dist.msg) \notin Expansion(chans[offers[i].c].info.Category)
          /\ Len(chans[offers[j].c].info.MsgTypes) = 0
          /\ chans[offers[j].c].info.Category = SubMsgCatAnyResp
    /\ dist.n = 1

\* Channel c received the message of call n.
Got(c, n) == \E k \in DOMAIN chans[c].got : chans[c].got[k].n = n

\* C16: every call of DistributeMessage returns; by then every registered
\* subscriber that matches was sent the message, and each of them that was
\* receiving at its send got it; a subscriber that was not receiving gets
\* nothing of that call, and the call takes no subscriber out of the maps.
C16_PagerIsolation ==
    /\ [](/\ \A i \in DOMAIN offers :
                Got(offers[i].c, offers[i].n) <=> offers[i].ready
          /\ \A c \in 1..MaxSubs : \A k \in DOMAIN chans[c].got :
                chans[c].got[k].n = dist.n => chans[c].got[k].msg = dist.msg)
    /\ [][/\ DistributeReturns =>
                Matching(dist.msg) \subseteq {offers[i].c : i \in OffersOf(dist.n)}
          /\ dist.pc # "idle" =>
                /\ typesToChans' = typesToChans
                /\ catsToChans' = catsToChans
                /\ \A c \in 1..MaxSubs :
                      chans[c].sub = "yes" => chans'[c].sub = "yes"]_vars
    /\ (dist.pc # "idle") ~> (dist.pc = "idle")

\* The first call met a subscriber that was not receiving and one that was;
\* the second call delivered to the subscriber the first one had skipped.
C16_Witness ==
    /\ dist.pc = "idle"
    /\ \E i, j \in OffersOf(1) : \E k \in OffersOf(2) :
          /\ ~offers[i].ready /\ ~Got(offers[i].c, 1)
          /\ offers[j].ready /\ Got(offers[j].c, 1)
          /\ offers[k].c = offers[i].c
          /\ offers[k].ready /\ Got(offers[k].c, 2)
          /\ chans[offers[i].c].sub = "yes"

\* The keys of the two maps under which channel c is registered.
RegisteredUnder(c) ==
    <<{k \in DOMAIN typesToChans : c \in typesToChans[k]},
      {k \in DOMAIN catsToChans : c \in catsToChans[k]}>>

\* The step in which the unsubscribe function of channel c empties the maps
\* of it.
Unsubscribes(c) == chans[c].sub = "yes" /\ chans'[c].sub = "removed"

\* C17: a channel whose unsubscribe function has removed it is under no key
\* of either map, and is closed once the function has returned; no key of
\* either map has an empty set of channels; the removal leaves every other
\* channel under the keys it was under.
C17_Unsubscribe ==
    /\ [](/\ \A c \in 1..MaxSubs :
                /\ chans[c].sub \in {"removed", "gone"} =>
                      RegisteredUnder(c) = <<{}, {}>>
                /\ chans[c].sub = "gone" => chans[c].state = "closed"
                /\ chans[c].sub = "yes" => RegisteredUnder(c) # <<{}, {}>>
          /\ \A k \in DOMAIN typesToChans : typesToChans[k] # {}
          /\ \A k \in DOMAIN catsToChans : catsToChans[k] # {})
    /\ [][\A c \in 1..MaxSubs :
             Unsubscribes(c) =>
                \A b \in 1..MaxSubs \ {c} : RegisteredUnder(b)' = RegisteredUnder(b)]_vars

\* A subscriber to every message has unsubscribed and its channel is closed;
\* a subscriber to the northbound messages is left, under its two keys, and
\* the two southbound keys are gone.
C17_Witness ==
    \E c, b \in 1..MaxSubs :
       /\ chans[c].sub = "gone"
       /\ chans[c].info = SubInfo(SubMsgCatAny, <<>>)
       /\ chans[b].sub = "yes"
       /\ chans[b].info = SubInfo(SubMsgCatAnyNB, <<>>)
       /\ catsToChans = [k \in {SubMsgCatAnyNBReq, SubMsgCatAnyNBResp} |-> {b}]

\* C18: DistributeMessage never sends on a channel that has been closed.
C18_NoSendAfterClose ==
    \A i \in DOMAIN offers : ~offers[i].closed

\* A subscriber that got the message of an earlier call has unsubscribed and
\* its channel is closed; the last call of DistributeMessage, with a message
\* the subscription matches, began after the removal and has returned.
C18_Witness ==
    /\ dist.pc = "idle"
    /\ dist.n > 0
    /\ \E c \in 1..MaxSubs :
          /\ chans[c].state = "closed"
          /\ Matches(chans[c].info, dist.msg)
          /\ Len(chans[c].got) > 0
          /\ chans[c].got[Len(chans[c].got)].n < dist.n
          /\ \A i \in OffersOf(dist.n) : offers[i].c # c

\* The slices of a stream: each message with the whitespace that follows it.
Slices(items) == [i \in DOMAIN items |-> items[i].msg \o items[i].ws]

\* The whole stream has been delivered and the scanner has made of it what
\* it can: Scan has returned false or waits for more bytes.
Scanned == wire = <<>> /\ lost = <<>> /\ (~scanning \/ fill)

\* C19: once a stream of well-formed messages has been scanned, the slices
\* are the messages, one slice a message and in order, each with the
\* whitespace that follows it.
C19_FramerCompleteness ==
    (Scanned /\ \A i \in DOMAIN sent : sent[i].msg \in WellFormed)
        => tokens = Slices(sent)

\* The same for streams in which no whitespace follows a message.
C19_Concatenated ==
    (/\ Scanned
     /\ \A i \in DOMAIN sent : sent[i].msg \in WellFormed /\ sent[i].ws = <<>>)
        => tokens = Slices(sent)

\* The number of bytes of a sequence of slices.
RECURSIVE Bytes(_)
Bytes(slices) ==
    IF slices = <<>> THEN 0
    ELSE Bytes(SubSeq(slices, 1, Len(slices) - 1)) + Len(slices[Len(slices)])

\* The offsets of the stream that lie between two messages: the start, and
\* the end of each message and of each byte of whitespace that follows it.
Boundaries ==
    {0} \cup UNION {{Len(Flat(SubSeq(sent, 1, i))) - j : j \in 0..Len(sent[i].ws)} :
                       i \in DOMAIN sent}

\* The stream ended in the middle of a message.
EndedWithinMessage == (Len(Flat(sent)) - Len(lost)) \notin Boundaries

\* C20: when the stream has ended in the middle of a message and Scan has
\* returned false, the scanner holds an error, and the slices it produced
\* end where a message ends.
C20_PrematureEnd ==
    (~scanning /\ EndedWithinMessage)
        => scanErr /\ Bytes(tokens) \in Boundaries

\* The second half alone: no slice ever ends inside a message.
C20_NoPartialSlice == Bytes(tokens) \in Boundaries

\* C30: every id AddMangler returns is greater than every id it returned
\* before in the session.
C30_MonotonicIds ==
    \A i, j \in DOMAIN issued : i < j => issued[i] < issued[j]

\* The lines of the header of a message, and the first piece of each.
LinesOf(bytes) == HeaderLines(bytes, Index(bytes, crlfcrlf) + 2)
NamesOf(bytes) == [i \in DOMAIN LinesOf(bytes) |-> LinesOf(bytes)[i][1]]

\* impersonate has been applied to a request on its way to the controller.
ServerRequestDone ==
    /\ pure.fn = "impersonate" /\ pure.done
    /\ pure.in.dir = Southbound
    /\ isRequest(pure.in.bytes)

\* The header lines of the manager's requests, in the manager's order.
ManagerOrder == <<"Host:", "User-Agent:", "Content-Type:", "Content-Length:">>

\* C21: for a request of the manager with its header lines in any order,
\* the result has the request line first and then those of the lines Host,
\* User-Agent, Content-Type and Content-Length that the request has, in
\* that order, and the parameters of the request line are in the order
\* username, password, seq.
C21_ManagerRequestOrder ==
    LET given == NamesOf(pure.in.bytes)
        made == LinesOf(pure.out.out)
        present == {given[i] : i \in 2..Len(given)}
        listed == Len(SelectSeq(ManagerOrder, LAMBDA n : n \in present))
    IN ServerRequestDone
          => /\ ~pure.out.err
             /\ SubSeq(NamesOf(pure.out.out), 1, 1 + listed) =
                   <<given[1]>> \o SelectSeq(ManagerOrder, LAMBDA n : n \in present)
             /\ given[1] = "GET" =>
                   made[1] = <<"GET", SP, "/eidc/getoutbound", "?", "username=", "b", "&",
                              "password=", "a", "&", "seq=", "3", SP, "HTTP", "/1.1">>
             /\ given[1] = "POST" => made[1] = PostLine

\* The request GET ?password=a&seq=3&username=b with its header lines in
\* the order Content-Length, Content-Type, User-Agent, Host has been
\* rewritten.
C21_Witness ==
    /\ ServerRequestDone
    /\ pure.in.bytes =
          HttpHeader(<<"GET", SP, "/eidc/getoutbound", "?", "password=", "a", "&",
                       "seq=", "3", "&", "username=", "b", SP, "HTTP", "/1.1">>,
                     <<HdrContentLength, HdrContentType, HdrUserAgent, HdrHost>>)
    /\ pure.out.out =
          HttpHeader(<<"GET", SP, "/eidc/getoutbound", "?", "username=", "b", "&",
                       "password=", "a", "&", "seq=", "3", SP, "HTTP", "/1.1">>,
                     <<HdrHost, HdrUserAgent, HdrContentType, HdrContentLength>>)
          \o crlf

\* The header lines that match no entry of any ordering table.
Unlisted == {"X-A:", "X-B:"}

\* C22: in the result of each impersonation routine the lines that match no
\* entry of the ordering table come after all the lines that match one, in
\* the order they had in the input.
C22_StableReordering ==
    LET given == NamesOf(pure.in.bytes)
        made == NamesOf(pure.out.out)
    IN (pure.fn = "impersonate" /\ pure.done)
          => /\ SelectSeq(made, LAMBDA n : n \in Unlisted)
                   = SelectSeq(given, LAMBDA n : n \in Unlisted)
             /\ \A i, j \in DOMAIN made :
                   (i < j /\ made[i] \in Unlisted) => made[j] \in Unlisted

\* The first half fails, the second holds: the lines that match no entry
\* come last.
C22_UnlistedLast ==
    LET made == NamesOf(pure.out.out)
    IN (pure.fn = "impersonate" /\ pure.done)
          => \A i, j \in DOMAIN made :
                (i < j /\ made[i] \in Unlisted) => made[j] \in Unlisted

WriteDone == pure.fn = "write" /\ pure.done

ClosedErrors == SelectSeq(server.err.got, LAMBDA e : e = errConnClosed)

\* C25: when serve is done with an Accept error it has sent it on the
\* error channel; it then leaves the loop if the error says the listener is
\* closed, and accepts again otherwise.  The error of the closed listener is
\* sent once.
C25_AcceptErrors ==
    /\ [](Len(ClosedErrors) <= 1)
    /\ [][(server.serve.pc = "err" /\ server'.serve.pc # "err")
             => /\ server'.err.got = Append(server.err.got, server.serve.err)
                /\ server'.serve.pc = (IF server.serve.err = errConnClosed
                                       THEN "unsub" ELSE "accept")
                /\ ~server'.serve.panicking]_vars

\* As long as the error channel is open C25 is as stated.
C25_WhileErrOpen ==
    /\ [](Len(ClosedErrors) <= 1)
    /\ [][(server.serve.pc = "err" /\ server'.serve.pc # "err" /\ ~server.err.closed)
             => /\ server'.err.got = Append(server.err.got, server.serve.err)
                /\ server'.serve.pc = (IF server.serve.err = errConnClosed
                                       THEN "unsub" ELSE "accept")
                /\ ~server'.serve.panicking]_vars

StopCalled == server.stop \notin {"none", "wait"}
LoopExited == server.serve.pc \in {"unsub", "closing", "done"}

\* c is closed or no longer registered, or the program has ended.
ClosedOrGone(c) ==
    \/ server.crashed
    \/ server.sessCh[c].state = "closed"
    \/ c \notin server.sessChMap

\* C26: after Stop the listener is closed and the accept loop is left, and
\* every channel registered before serve returns is closed in the end.
C26_Stop ==
    /\ StopCalled ~> (server.crashed \/ (server.nl = "closed" /\ LoopExited))
    /\ \A c \in 1..MaxSessSubs :
          (StopCalled /\ c \in server.sessChMap /\ server.serve.pc # "done")
             ~> ClosedOrGone(c)

\* No goroutine that announces a session waits for a subscriber.
NobodyWaits ==
    \A k \in DOMAIN server.announce :
        server.announce[k].pc = "send" => server.announce[k].left = {}

\* C26 holds in the runs in which the subscribers receive the sessions
\* announced to them.
C26_StopWhenReceived == ([]<>NobodyWaits) => C26_Stop

\* The accept loop is left after Stop in any case.
C26_LoopExits ==
    StopCalled ~> (server.crashed \/ (server.nl = "closed" /\ LoopExited))

\* The five manglers of SetLockStatus(Unlocked, true), and whether a
\* registered mangler or a call's mangler is the i-th of the five of some
\* call of it.
Stealth == SetLockStatusManglers(TRUE)
IsStealth(m, i) ==
    /\ m.kind = Stealth[i].kind
    /\ m.msgType = Stealth[i].msgType
    /\ m.with = Stealth[i].with

\* The message of a call is one the i-th of the five is there to drop.
StealthMatch(c, i) ==
    CASE i = 1 -> c.typ = MsgTypeDoor0x2fLockStatusResponse
      [] i = 2 -> c.typ = MsgTypeEventRequest
                  /\ c.EventType \in {EventAccessGranted,
                                      EventAccessGranted + BufferedEventFlag}
      [] i = 3 -> c.typ = MsgTypePointStatusRequest /\ 12 \in c.Points
      [] i = 4 -> c.typ = MsgTypePointStatusRequest /\ 38 \in c.Points
      [] i = 5 -> c.typ = MsgTypePointStatusRequest /\ 16 \in c.Points

\* The lock status requests written to the controller, those of the j-th
\* injection among them, and whether the message of the j-th injection
\* has been handed to the outbound half or written.
LockStatusRequests(q) ==
    SelectSeq(q, LAMBDA e : e.Type = MsgTypeDoor0x2fLockStatusRequest)
RequestsOf(q, j) == SelectSeq(q, LAMBDA e : e.id = <<"Inject", j>>)
LockStatusEmitted(j) ==
    \/ out[Southbound].id = <<"Inject", j>>
    \/ RequestsOf(sock[Southbound], j) # <<>>

RECURSIVE TrailingDigits(_)
TrailingDigits(h) ==
    IF h # <<>> /\ IsDigit(h[Len(h)])
    THEN 1 + TrailingDigits(SubSeq(h, 1, Len(h) - 1))
    ELSE 0

\* The host ends in a colon followed by one or more digits.
HasPort(h) ==
    /\ TrailingDigits(h) >= 1
    /\ Len(h) > TrailingDigits(h)
    /\ h[Len(h) - TrailingDigits(h)] = ":"

\* C28: canonicalizeHost returns a host that ends in a colon and digits
\* as it is and any other host with ":443" added, and applied to its own
\* result it returns that result.
C28_CanonicalizeHost ==
    (pure.fn = "canonicalizeHost" /\ pure.out # <<>>)
       => /\ pure.out[1] = (IF HasPort(pure.in) THEN pure.in
                            ELSE pure.in \o <<":", "4", "4", "3">>)
          /\ Len(pure.out) = 2 => pure.out[2] = pure.out[1]

\* "f:1" comes back as it is and "f1" comes back as "f1:443", twice.
C28_Witness ==
    /\ pure.fn = "canonicalizeHost"
    /\ pure.in = <<"f", "1">>
    /\ pure.out = <<<<"f", "1", ":", "4", "4", "3">>, <<"f", "1", ":", "4", "4", "3">>>>

\* A request of the URI table has been typed, and not as unknown.
Recognized ==
    /\ pure.fn = "getSouthboundRequestType"
    /\ pure.done
    /\ pure.in.path \in RequestURIs
    /\ pure.out # MsgTypeUnknown

\* C29: no request of another path of the URI table gets the type that
\* a recognized request has got.
C29_OneToOne ==
    Recognized =>
        \A m \in Methods : \A q \in RequestURIs \ {pure.in.path} :
            getSouthboundRequestType(m, q) # pure.out

\* C31: over.Done() is executed at most once: the wait group counter, which
\* newSession sets to 1, is 1 or 0 and never below.
C31_LatchFiresOnce == over \in {0, 1}

\* The outbound half of direction d has received a message and has not
\* finished writing it: it is in out.Write or on its way there.
Writing(d) == pcOut[d] = "relay"

\* A goroutine holds the relay lock and is blocked in its send to the
\* outbound half of direction d.
LockedSender(d) ==
    \/ relayMutex = d /\ pcIn[d] = "send"
    \/ /\ relayMutex = "Inject"
       /\ \E j \in DOMAIN inj : inj[j].pc = "send" /\ inj[j].msg.direction = d

\* C32: nobody holds the relay lock while waiting for a socket write to
\* complete: while an outbound half is writing, no holder of the relay lock
\* is blocked until that outbound half receives again.
C32_RelayLockHeldBriefly ==
    \A d \in Dirs : Writing(d) => ~LockedSender(d)

\* C33: a call of Inject that is under way once BeginRelaying has been
\* called returns (unless the process has panicked), and the relay lock is
\* not left with Inject.
C33_InjectCompletes ==
    \A j \in 1..LiveMaxInject :
        (begun /\ inj[j].pc \in {"lock", "send"})
            ~> (\/ inj[j].pc = "done" /\ relayMutex # "Inject"
                \/ over < 0)

\* The registry as the embedder sees it: which mangler is under which id.
Registry(ms) == {<<i, ms[i].uid>> : i \in DOMAIN ms}

\* C34: while an inbound half runs the manglers on a message, a step changes
\* the registry only if it is an invocation of that pass whose result has
\* the Done flag, and then it removes the invoked mangler and nothing else.
C34_RegistrationAfterPass ==
    [][\A d \in Dirs :
          pcIn[d] = "mangle" =>
             \/ Registry(manglers') = Registry(manglers)
             \/ /\ Len(calls'[d]) = Len(calls[d]) + 1
                /\ \E c \in {calls'[d][Len(calls'[d])]} :
                      /\ IsDone(c.mr)
                      /\ Registry(manglers') = Registry(manglers) \ {<<c.id, c.m.uid>>}]_vars

\* A pass is half way: the mangler it invoked first returned Done and is
\* gone, another one is still to be invoked, and the embedder has a call of
\* DelMangler to make, which waits for the registry lock.
C34_Witness ==
    \E d \in Dirs :
        /\ pcIn[d] = "mangle"
        /\ mangleLock = d
        /\ visited[d] # {}
        /\ RangeNext(manglers, visited[d]) # {}
        /\ \E k \in DOMAIN calls[d] :
              /\ calls[d][k].msg = cur[d].id
              /\ IsDone(calls[d][k].mr)
              /\ calls[d][k].id \notin DOMAIN manglers
        /\ ndel < env.maxDel

\* The invocations in which DropEidcEvent dropped an event.
EventDrops ==
    {c \in Range(calls[Northbound]) : c.m.kind = "DropEidcEvent" /\ IsDrop(c.mr)}

\* The acknowledgements of event E that were injected and written to the
\* controller.
EventAcksWritten(E) ==
    SelectSeq(sock[Southbound],
              LAMBDA e : e.Injected /\ e.Type = MsgTypeEventAckRequest /\ e.EventID = E)

\* C35: an event that DropEidcEvent dropped is not written to the manager,
\* at most one injected acknowledgement of it is written to the controller,
\* and the controller's response to that acknowledgement is not written to
\* the manager.
C35_EventSuppression ==
    \A c \in EventDrops :
        /\ c.msg \notin Ids(sock[Northbound])
        /\ Len(EventAcksWritten(c.msg[2])) <= 1
        /\ \A k \in DOMAIN sock[Northbound] :
              sock[Northbound][k].re \notin Ids(EventAcksWritten(c.msg[2]))

\* C36: an invocation that returns the Err flag without the Drop flag
\* reports exactly one error, and the pass goes on with the same message
\* under the relay lock; and a message whose pass is over without a Drop is
\* handed to the outbound half after every registered mangler was invoked on
\* it, with one error reported for each invocation that returned Err.
C36_ErrorsDoNotStop ==
    [][\A d \in Dirs :
          /\ (pcIn[d] = "mangle" /\ Len(calls'[d]) = Len(calls[d]) + 1) =>
                \A c \in {calls'[d][Len(calls'[d])]} :
                   (ManglerErr \subseteq c.mr /\ ~(ManglerDrop \subseteq c.mr)) =>
                      /\ errs'[d] = errs[d] + 1
                      /\ cur'[d] = cur[d]
                      /\ relayMutex' = d
                      /\ pcIn'[d] \in {"mangle", "send"}
          /\ (pcIn[d] = "mangle" /\ pcIn'[d] = "send") =>
                \A i \in DOMAIN manglers' :
                   \E c \in Range(calls'[d]) :
                      c.msg = cur[d].id /\ c.m.uid = manglers'[i].uid
          /\ (pcIn[d] = "send" /\ pcIn'[d] = "scan") =>
                /\ out'[d] = cur[d]
                /\ \A c \in CallsOn(d, cur[d].id) : ~IsDrop(c.mr)]_vars

\* The first of two manglers returned Err for an event, the second was
\* invoked on it all the same, one error was reported and the event was
\* written to the manager.
C36_Witness ==
    \E k \in DOMAIN sock[Northbound] :
        \E c1, c2 \in CallsOn(Northbound, sock[Northbound][k].id) :
            /\ sock[Northbound][k].Type = MsgTypeEventRequest
            /\ c1.mr = ManglerErr
            /\ c2.mr = ManglerNoop
            /\ c1.n < c2.n
            /\ errs[Northbound] = 1

\* Everything the session has about the message with this id in direction d:
\* an inbound half or an outbound half holds it, a mangler was invoked on
\* it, the outbound half received it, it was written or given to the pager.
Handled(d, id) ==
    \/ cur[d].id = id
    \/ out[d].id = id
    \/ CallsOn(d, id) # {}
    \/ id \in Range(recvd[d])
    \/ id \in Ids(sock[d])
    \/ id \in Ids(pager[d])

\* C37: a slice ReadMsg fails on is reported as one error, with the manglers,
\* the session state and the sequence counter left as they are, the relay
\* lock released and the inbound half back at its scanner; and the slice is
\* never passed to a mangler, handed to the outbound half, written, or
\* given to the pager.
C37_ParseErrors ==
    /\ [][\A d \in Dirs :
             rejected'[d] # rejected[d] =>
                /\ errs'[d] = errs[d] + 1
                /\ manglers' = manglers
                /\ serverKeys' = serverKeys
                /\ lastSeq' = lastSeq
                /\ relayMutex' = "free"
                /\ pcIn'[d] = "scan"
                /\ nframed'[d] = nframed[d] + 1]_vars
    /\ [](\A d \in Dirs : \A id \in rejected[d] : ~Handled(d, id))

\* The controller's second slice did not parse; its third message was
\* relayed to the manager after it.
C37_Witness ==
    /\ <<Northbound, 2>> \in rejected[Northbound]
    /\ Len(sock[Northbound]) = 2
    /\ sock[Northbound][2].id = <<Northbound, 3>>
    /\ errs[Northbound] = 1

\* The manglers of the list are registered in ms, each under its own id.
Holds(ms, list) ==
    \E f \in [DOMAIN list -> DOMAIN ms] :
        /\ \A a, b \in DOMAIN list : a # b => f[a] # f[b]
        /\ \A a \in DOMAIN list :
              /\ ms[f[a]].kind = list[a].kind
              /\ ms[f[a]].msgType = list[a].msgType
              /\ ms[f[a]].with = list[a].with

\* The steps of Inject number j, and of the outbound half of direction d on
\* a message that came from Inject.
InjectStep(j) == j \in DOMAIN inj /\ inj'[j].pc # inj[j].pc /\ inj[j].pc # "idle"
InjectedRelayStep(d) == out[d] # NoMsg /\ out[d].Injected /\ out'[d] = NoMsg

\* C38: a message passed to Inject is never given to a registered mangler;
\* Inject and the outbound half's handling of the message leave the server
\* keys alone and change the registry only by adding the manglers given to
\* Inject; the sequence counter moves only when the outbound half
\* resequences an injected southbound request.
C38_InjectBypassesInbound ==
    /\ [](\A d \in Dirs : \A c \in Range(calls[d]) : c.msg[1] # "Inject")
    /\ [][/\ \A j \in DOMAIN inj :
               InjectStep(j) =>
                  /\ serverKeys' = serverKeys
                  /\ lastSeq' = lastSeq
                  /\ calls' = calls
                  /\ Registry(manglers) \subseteq Registry(manglers')
                  /\ IF inj[j].pc = "lock"
                     THEN /\ Cardinality(Registry(manglers'))
                               = Cardinality(Registry(manglers))
                                 + Len(inj[j].manglers)
                          /\ Holds(manglers', inj[j].manglers)
                     ELSE manglers' = manglers
          /\ \A d \in Dirs :
               InjectedRelayStep(d) =>
                  /\ serverKeys' = serverKeys
                  /\ manglers' = manglers
                  /\ calls' = calls
                  /\ lastSeq' # lastSeq => d = Southbound /\ out[d].Request]_vars

\* Both kinds of injected message were written to the controller while a
\* mangler of the embedder was registered that had been invoked on an
\* inbound message; the injected ConnectedResponse carried a server key the
\* session has not recorded.
C38_Witness ==
    /\ \E e \in Range(sock[Southbound]) :
          e.Injected /\ e.Type = MsgTypeConnectedResponse
    /\ \E e \in Range(sock[Southbound]) :
          e.Injected /\ e.Type = MsgTypeHeartbeatRequest
    /\ \E i \in DOMAIN manglers : manglers[i].kind = UserMangler.kind
    /\ \E i \in DOMAIN manglers : manglers[i].kind = "dropEidcResponse"
    /\ calls[Northbound] # <<>>
    /\ "K1" \notin Range(serverKeys)

\* C39: no send of the server's goroutines or of Stop meets a closed
\* channel: serve and the session goroutines never send an error on the
\* closed error channel and a call of Stop never sends on the closed stop
\* channel.
C39_ShutdownPanicFree ==
    /\ ~server.serve.panicking
    /\ server.stop # "sendPanics"
    /\ ~(server.crashed /\ server.err.closed
         /\ \E k \in DOMAIN server.announce : server.announce[k].pc = "err")

\* A single Stop is enough: serve's send of the Accept error panics.
C39_OneStop == ~server.serve.panicking

\* A second Stop is enough: its send on the closed stop channel panics.
C39_SecondStop == server.stop # "sendPanics"

\* The slices Scan produces when one Read delivers the whole of data and the
\* next returns io.EOF: SplitHttpMsg is applied to what is left until it
\* asks for more or fails.
RECURSIVE ScanWhole(_)
ScanWhole(data) ==
    LET r == SplitHttpMsg(data, TRUE)
    IN IF r.err \/ r.advance = 0
       THEN <<>>
       ELSE <<r.token>> \o ScanWhole(SubSeq(data, r.advance + 1, Len(data)))

\* No slice begins with whitespace.
NoLeadingSpace == \A i \in DOMAIN tokens : ~IsSpace(tokens[i][1])

\* C40: once the whole stream has been delivered and scanned, whatever the
\* reads were, the slices are those of the delivery in a single read, and
\* no slice begins with the whitespace that follows the message before it.
C40_ReadBoundaries ==
    /\ Scanned => tokens = ScanWhole(Flat(sent))
    /\ NoLeadingSpace

\* For streams in which no whitespace follows a message the slices are the
\* same for every way the stream is cut into reads.
C40_WithoutWhitespace ==
    (Scanned /\ \A i \in DOMAIN sent : sent[i].ws = <<>>)
        => tokens = ScanWhole(Flat(sent)) /\ NoLeadingSpace

\* The first half alone: the slices are those of the delivery in one read.
C40_SlicesDiffer == Scanned => tokens = ScanWhole(Flat(sent))

====
